---- MODULE Spec2Model ----
(***************************************************************************)
(* Agentverse: the agent executor (services/AgentExecutor.ts), its template *)
(* actions, the unified message router (agents/AgentManager.ts) and the LLM *)
(* provider adapter (llm/LLMProvider.ts).                                   *)
(*                                                                          *)
(* One executeAgent call is a chain of awaited steps; every await is a      *)
(* point where other requests of the same Node process interleave, so each  *)
(* awaited step is one action.  An awaited store update either resolves or  *)
(* rejects; a rejection inside the try block of executeAgent enters its     *)
(* catch handler, a rejection outside it reaches the caller.                *)
(***************************************************************************)
EXTENDS Integers, Sequences, FiniteSets, TLC

VARIABLES
  agents,     \* the agent store: id -> agent record, or NoAgent
  logs,       \* the execution log, in append order
  calls,      \* executeAgent calls in flight: slot -> the call's locals
  nExec,      \* number of executeAgent calls started so far
  env,        \* process.env: the set of configured credential names
  provider,   \* LLMProvider.provider
  act,        \* the last template action run on its own: input and output
  chat,       \* the last handleMessage call: input and output
  clock,      \* Date.now()
  llm,        \* the last provider-adapter call: input and output
  http,       \* the HTTP request being handled and its response
  projects,   \* storage.generatedProjects: the entries of the map
  ws,         \* the WebSocket connection: frames received and sent
  client      \* the UnifiedChat component in the browser

vars == <<agents, logs, calls, nExec, env, provider, act, chat, clock, llm,
          http, projects, ws, client>>

\* the state of the HTTP routes, the WebSocket endpoint and the browser client
Edge == <<http, projects, ws, client>>

----------------------------------------------------------------------------
\* Bounds of the model

\* executeAgent calls started in one behaviour
MaxExecutions == 2

\* request slots: two executeAgent calls can be in flight together
Slots == {"s1", "s2"}

AgentIds == {"a1", "a2"}

----------------------------------------------------------------------------
\* Values

\* getAgent answers undefined for an id the store does not hold
NoAgent == [absent |-> TRUE]
Absent(a) == "absent" \in DOMAIN a
\* params: whether an object was passed, and its truthy fields
NoParams == [given |-> FALSE, fields |-> {}]
Params(fs) == [given |-> TRUE, fields |-> fs]
NoResult == [none |-> TRUE]

\* no request in flight, no project stored, no socket, a client just mounted
IdleHttp == [pc |-> "idle"]
NoProjects == {}
IdleWs == [pc |-> "idle"]
IdleClient == [pc |-> "idle"]

InitEdge ==
  /\ http = IdleHttp
  /\ projects = NoProjects
  /\ ws = IdleWs
  /\ client = IdleClient

ImplementedTemplates == {"auto-email", "weather-report", "news-summarizer", "task-reminder"}
StubTemplates == {"social-monitor", "data-backup"}
\* "null": an agent created without a template; "custom": any other id
Templates == ImplementedTemplates \cup StubTemplates \cup {"null", "custom"}

Fields == {"to", "subject", "body", "location", "apiKey", "topic", "task", "reminderEmail"}

Keys == {"GEMINI_API_KEY", "OPENAI_API_KEY", "ANTHROPIC_API_KEY"}

----------------------------------------------------------------------------
\* Provider selection (llm/LLMProvider.ts)

\* Mutant of detectProvider: OpenAI is looked at before Gemini
detectProviderOpenAIFirst(e) ==
  IF "OPENAI_API_KEY" \in e THEN "openai"
  ELSE IF "GEMINI_API_KEY" \in e THEN "gemini"
  ELSE IF "ANTHROPIC_API_KEY" \in e THEN "anthropic"
  ELSE "mock"

\* detectProvider(): the first configured credential wins
detectProvider(e) ==
  IF "GEMINI_API_KEY" \in e THEN "gemini"
  ELSE IF "OPENAI_API_KEY" \in e THEN "openai"
  ELSE IF "ANTHROPIC_API_KEY" \in e THEN "anthropic"
  ELSE "mock"

\* chat(): the upstream the call goes to, "mock" when it answers locally
chatRoute(p, e) ==
  IF p = "gemini" /\ "GEMINI_API_KEY" \in e THEN "gemini"
  ELSE IF p = "openai" /\ "OPENAI_API_KEY" \in e THEN "openai"
  ELSE IF p = "anthropic" /\ "ANTHROPIC_API_KEY" \in e THEN "anthropic"
  ELSE "mock"

----------------------------------------------------------------------------
\* Template actions (services/AgentExecutor.ts)

\* const { f } = params || {}: the field is truthy
Has(params, f) == f \in params.fields

Msg(kind, names) == [kind |-> kind, names |-> names]
Fail(kind, names) == [success |-> FALSE, message |-> Msg(kind, names)]
Ok(kind) == [success |-> TRUE, message |-> Msg(kind, {})]
Out(result, outbound) == [result |-> result, outbound |-> outbound]

\* what the awaited outbound call of an action does
Outcomes == {"ok", "refused", "throws", "apiError", "empty"}

executeAutoEmailAgent(params, o) ==
  IF ~Has(params, "to") \/ ~Has(params, "subject") \/ ~Has(params, "body")
  THEN Out(Fail("Missing required parameters", {"to", "subject", "body"}), <<>>)
  ELSE IF o = "throws" THEN Out(Fail("Failed to send email", {}), <<"email">>)
  ELSE IF o = "ok" THEN Out(Ok("Email sent successfully"), <<"email">>)
  ELSE Out(Fail("Email service failed to send email", {}), <<"email">>)

\* Mutant of executeWeatherReportAgent: the apiKey check is missing
executeWeatherReportAgentNoKeyCheck(params, o) ==
  IF ~Has(params, "location")
  THEN Out(Fail("Missing required parameter", {"location"}), <<>>)
  ELSE IF o \in {"throws", "apiError", "empty"}
  THEN Out(Fail("Failed to fetch weather", {}), <<"fetch">>)
  ELSE IF o = "ok" THEN Out(Ok("Weather fetched successfully"), <<"fetch">>)
  ELSE Out(Fail("Weather API error", {}), <<"fetch">>)

executeWeatherReportAgent(params, o) ==
  IF ~Has(params, "location")
  THEN Out(Fail("Missing required parameter", {"location"}), <<>>)
  ELSE IF ~Has(params, "apiKey")
  THEN Out(Fail("Missing required parameter", {"apiKey"}), <<>>)
  ELSE IF o \in {"throws", "apiError", "empty"}
  THEN Out(Fail("Failed to fetch weather", {}), <<"fetch">>)
  ELSE IF o = "ok" THEN Out(Ok("Weather fetched successfully"), <<"fetch">>)
  ELSE Out(Fail("Weather API error", {}), <<"fetch">>)

\* Mutant of executeNewsSummarizerAgent: the articles are fetched a second time
executeNewsSummarizerAgentFetchesTwice(params, o, p, e) ==
  IF ~Has(params, "topic")
  THEN Out(Fail("Missing required parameter", {"topic"}), <<>>)
  ELSE IF ~Has(params, "apiKey")
  THEN Out(Fail("Missing required parameter", {"apiKey"}), <<>>)
  ELSE IF o = "throws" THEN Out(Fail("Failed to fetch and summarize news", {}), <<"fetch">>)
  ELSE IF o \in {"refused", "apiError"} THEN Out(Fail("News API error", {}), <<"fetch">>)
  ELSE IF o = "empty" THEN Out(Fail("No news articles found", {}), <<"fetch", "fetch">>)
  ELSE Out(Ok("Successfully summarized"),
           IF chatRoute(p, e) = "mock" THEN <<"fetch">> ELSE <<"fetch", "llm">>)

executeNewsSummarizerAgent(params, o, p, e) ==
  IF ~Has(params, "topic")
  THEN Out(Fail("Missing required parameter", {"topic"}), <<>>)
  ELSE IF ~Has(params, "apiKey")
  THEN Out(Fail("Missing required parameter", {"apiKey"}), <<>>)
  ELSE IF o = "throws" THEN Out(Fail("Failed to fetch and summarize news", {}), <<"fetch">>)
  ELSE IF o \in {"refused", "apiError"} THEN Out(Fail("News API error", {}), <<"fetch">>)
  ELSE IF o = "empty" THEN Out(Fail("No news articles found", {}), <<"fetch">>)
  ELSE Out(Ok("Successfully summarized"),
           IF chatRoute(p, e) = "mock" THEN <<"fetch">> ELSE <<"fetch", "llm">>)

executeTaskReminderAgent(params, o) ==
  IF ~Has(params, "task")
  THEN Out(Fail("Missing required parameter", {"task"}), <<>>)
  ELSE IF ~Has(params, "reminderEmail")
  THEN Out(Fail("Missing required parameter", {"reminderEmail"}), <<>>)
  ELSE IF o = "throws" THEN Out(Fail("Failed to send task reminder", {}), <<"email">>)
  ELSE IF o = "ok" THEN Out(Ok("Task reminder sent successfully"), <<"email">>)
  ELSE Out(Fail("Failed to send task reminder email", {}), <<"email">>)

\* Mutant of executeSocialMonitorAgent: the stub fetches before it reports
executeSocialMonitorAgentFetches(params) ==
  Out(Fail("Social Monitor agent not yet implemented", {}), <<"fetch">>)

executeSocialMonitorAgent(params) ==
  Out(Fail("Social Monitor agent not yet implemented", {}), <<>>)

executeDataBackupAgent(params) ==
  Out(Fail("Data Backup agent not yet implemented", {}), <<>>)

\* switch (agent.templateId)
RunTemplate(templateId, params, o, p, e) ==
  CASE templateId = "auto-email" -> executeAutoEmailAgent(params, o)
    [] templateId = "weather-report" -> executeWeatherReportAgent(params, o)
    [] templateId = "news-summarizer" -> executeNewsSummarizerAgent(params, o, p, e)
    [] templateId = "task-reminder" -> executeTaskReminderAgent(params, o)
    [] templateId = "social-monitor" -> executeSocialMonitorAgent(params)
    [] templateId = "data-backup" -> executeDataBackupAgent(params)
    [] OTHER -> Out(Fail("Unknown agent template", {}), <<>>)

\* Mutant of MathRound: the quotient truncated instead of rounded
MathRoundTruncates(p, q) == p \div q

\* Math.round(p / q) for p >= 0, q > 0: floor(p/q + 1/2)
MathRound(p, q) == (2 * p + q) \div (2 * q)

\* Mutant of newSuccessRate: the rate of the last outcome alone
newSuccessRateOfLast(agent, success) == IF success THEN 100 ELSE 0

newSuccessRate(agent, success) ==
  IF success
  THEN MathRound(agent.successRate * agent.tasksCompleted + 100, agent.tasksCompleted + 1)
  ELSE MathRound(agent.successRate * agent.tasksCompleted, agent.tasksCompleted + 1)


----------------------------------------------------------------------------
\* The agent store (storage.ts)

getAgent(store, id) == store[id]

updateAgentStatus(store, id, st) ==
  IF Absent(store[id]) THEN store ELSE [store EXCEPT ![id].status = st]

updateAgentMetrics(store, id, n, r) ==
  IF Absent(store[id]) THEN store
  ELSE [store EXCEPT ![id].tasksCompleted = n, ![id].successRate = r]

createAgentExecutionLog(l, entry) == Append(l, entry)


NewAgent(templateId, rate) ==
  [templateId |-> templateId, status |-> "idle", tasksCompleted |-> 0, successRate |-> rate]

----------------------------------------------------------------------------
\* executeAgent (services/AgentExecutor.ts), one action per awaited step and
\* per way the awaited promise settles

IdleCall ==
  [pc |-> "idle", exec |-> 0, agentId |-> "none", params |-> NoParams,
   agent |-> NoAgent, result |-> NoResult, error |-> "none", ret |-> NoResult,
   outbound |-> <<>>]

\* parameter objects of the calls of the executor model
ExecParams == {NoParams, Params(Fields)}

InFlight(c) == calls[c].pc # "idle"

\* a new request takes the first free slot
FreeSlot == IF calls["s1"].pc = "idle" THEN "s1" ELSE "s2"

Others == <<env, provider, act, chat, clock, llm, Edge>>

\* Mutant of AfterLookup: the "if (!agent)" return is missing
AfterLookupUnchecked(n, id, params, agent) ==
  [IdleCall EXCEPT !.pc = "setExecuting", !.exec = n, !.agentId = id,
                   !.params = params, !.agent = agent]

\* lines 14-23: undefined -> return "Agent not found", else go on
AfterLookup(n, id, params, agent) ==
  IF Absent(agent)
  THEN [IdleCall EXCEPT !.pc = "returned", !.exec = n, !.agentId = id, !.params = params,
                        !.ret = Fail("Agent not found", {})]
  ELSE [IdleCall EXCEPT !.pc = "setExecuting", !.exec = n, !.agentId = id,
                        !.params = params, !.agent = agent]

\* lines 13-21: the call and its awaited getAgent
ExecuteAgentWithin(c, id, params, max) ==
  /\ calls[c].pc = "idle"
  /\ c = FreeSlot
  /\ nExec < max
  /\ nExec' = nExec + 1
  /\ calls' = [calls EXCEPT ![c] = AfterLookup(nExec + 1, id, params, getAgent(agents, id))]
  /\ UNCHANGED <<agents, logs, Others>>

ExecuteAgent(c, id, params) == ExecuteAgentWithin(c, id, params, MaxExecutions)

\* line 23
SetExecuting(c) ==
  /\ calls[c].pc = "setExecuting"
  /\ agents' = updateAgentStatus(agents, calls[c].agentId, "executing")
  /\ calls' = [calls EXCEPT ![c].pc = "dispatch"]
  /\ UNCHANGED <<logs, nExec, Others>>

\* line 23 is outside the try block: its rejection reaches the caller
Throw(call, site) == [call EXCEPT !.pc = "thrown", !.error = site]

SetExecutingRejects(c) ==
  /\ calls[c].pc = "setExecuting"
  /\ calls' = [calls EXCEPT ![c] = Throw(calls[c], "updateAgentStatus")]
  /\ UNCHANGED <<agents, logs, nExec, Others>>

\* lines 28-58: the switch and the awaited template action
Dispatch(c, o) ==
  /\ calls[c].pc = "dispatch"
  /\ LET r == RunTemplate(calls[c].agent.templateId, calls[c].params, o, provider, env)
     IN calls' = [calls EXCEPT ![c].pc = "metrics", ![c].result = r.result,
                               ![c].outbound = r.outbound]
  /\ UNCHANGED <<agents, logs, nExec, Others>>

\* lines 60-65
UpdateMetrics(c) ==
  /\ calls[c].pc = "metrics"
  /\ agents' = updateAgentMetrics(agents, calls[c].agentId,
                  calls[c].agent.tasksCompleted + 1,
                  newSuccessRate(calls[c].agent, calls[c].result.success))
  /\ calls' = [calls EXCEPT ![c].pc = "status"]
  /\ UNCHANGED <<logs, nExec, Others>>

\* line 66
UpdateStatus(c) ==
  /\ calls[c].pc = "status"
  /\ agents' = updateAgentStatus(agents, calls[c].agentId,
                  IF calls[c].result.success THEN "idle" ELSE "error")
  /\ calls' = [calls EXCEPT ![c].pc = "log"]
  /\ UNCHANGED <<logs, nExec, Others>>

LogEntry(call, st) == [agentId |-> call.agentId, status |-> st, exec |-> call.exec]

\* lines 68-75
CreateLog(c) ==
  /\ calls[c].pc = "log"
  /\ logs' = createAgentExecutionLog(logs,
                LogEntry(calls[c], IF calls[c].result.success THEN "success" ELSE "error"))
  /\ calls' = [calls EXCEPT ![c].pc = "returned", ![c].ret = calls[c].result]
  /\ UNCHANGED <<agents, nExec, Others>>

\* line 76: the try block's exception enters the catch handler
Catch(call, site) == [call EXCEPT !.pc = "catchStatus", !.error = site]

\* lines 65, 66, 68: the awaited store update rejects
StoreRejects(c) ==
  /\ calls[c].pc \in {"metrics", "status", "log"}
  /\ calls' = [calls EXCEPT ![c] = Catch(calls[c],
                  CASE calls[c].pc = "metrics" -> "updateAgentMetrics"
                    [] calls[c].pc = "status" -> "updateAgentStatus"
                    [] OTHER -> "createAgentExecutionLog")]
  /\ UNCHANGED <<agents, logs, nExec, Others>>

\* Mutant of CatchStatus: the handler leaves the status as it is
CatchStatusKeeps(c) ==
  /\ calls[c].pc = "catchStatus"
  /\ calls' = [calls EXCEPT ![c].pc = "catchLog"]
  /\ UNCHANGED <<agents, logs, nExec, Others>>

\* line 78
CatchStatus(c) ==
  /\ calls[c].pc = "catchStatus"
  /\ agents' = updateAgentStatus(agents, calls[c].agentId, "error")
  /\ calls' = [calls EXCEPT ![c].pc = "catchLog"]
  /\ UNCHANGED <<logs, nExec, Others>>

\* Mutant of CatchLog: the handler returns without logging
CatchLogSilent(c) ==
  /\ calls[c].pc = "catchLog"
  /\ calls' = [calls EXCEPT ![c].pc = "returned", ![c].ret = Fail(calls[c].error, {})]
  /\ UNCHANGED <<agents, logs, nExec, Others>>

\* lines 80-90
CatchLog(c) ==
  /\ calls[c].pc = "catchLog"
  /\ logs' = createAgentExecutionLog(logs, LogEntry(calls[c], "error"))
  /\ calls' = [calls EXCEPT ![c].pc = "returned", ![c].ret = Fail(calls[c].error, {})]
  /\ UNCHANGED <<agents, nExec, Others>>

\* lines 78, 80: a store update of the catch handler rejects
CatchRejects(c) ==
  /\ calls[c].pc \in {"catchStatus", "catchLog"}
  /\ calls' = [calls EXCEPT ![c] = Throw(calls[c],
                  IF calls[c].pc = "catchStatus" THEN "updateAgentStatus"
                  ELSE "createAgentExecutionLog")]
  /\ UNCHANGED <<agents, logs, nExec, Others>>

\* routes.ts 203-217: res.json(result), or status 500 when executeAgent threw
Respond(c) ==
  /\ calls[c].pc \in {"returned", "thrown"}
  /\ calls' = [calls EXCEPT ![c] = IdleCall]
  /\ UNCHANGED <<agents, logs, nExec, Others>>

----------------------------------------------------------------------------
\* Specifications of the executor

IdleAct == [done |-> FALSE]
IdleChat == [pc |-> "idle"]
IdleLlm == [done |-> FALSE]

\* credential configurations of the executor model
ExecEnvs == {{}, {"GEMINI_API_KEY"}}

\* counters a persisted agent can have at process start: <<tasksCompleted, successRate>>
\* of a new agent (either column default), and of one executed S, F before
Histories == {<<0, 0>>, <<0, 100>>, <<2, 50>>}

InitStore ==
  /\ \E t \in Templates, h \in Histories :
        agents = [id \in AgentIds |->
                    IF id = "a1"
                    THEN [NewAgent(t, h[2]) EXCEPT !.tasksCompleted = h[1]]
                    ELSE NoAgent]
  /\ logs = <<>>
  /\ calls = [c \in Slots |-> IdleCall]
  /\ nExec = 0

Init ==
  /\ InitStore
  /\ env \in ExecEnvs
  /\ provider = detectProvider(env)
  /\ act = IdleAct
  /\ chat = IdleChat
  /\ clock = 0
  /\ llm = IdleLlm
  /\ InitEdge

\* the steps of a call whose store updates resolve
Step(c) ==
  \/ SetExecuting(c)
  \/ \E o \in Outcomes : Dispatch(c, o)
  \/ UpdateMetrics(c)
  \/ UpdateStatus(c)
  \/ CreateLog(c)
  \/ Respond(c)

\* the steps of a call taken when a store update rejects
FaultStep(c) ==
  \/ SetExecutingRejects(c)
  \/ StoreRejects(c)
  \/ CatchStatus(c)
  \/ CatchLog(c)
  \/ CatchRejects(c)

Next ==
  \/ \E c \in Slots, id \in AgentIds, p \in ExecParams : ExecuteAgent(c, id, p)
  \/ \E c \in Slots : Step(c)

\* the executor with requests interleaving at every await, on a store whose
\* updates resolve
Spec == Init /\ [][Next]_vars

\* no other call on the same agent is in flight
Alone(c, id) == \A d \in Slots \ {c} : ~(InFlight(d) /\ calls[d].agentId = id)

NextSeq ==
  \/ \E c \in Slots, id \in AgentIds, p \in ExecParams : Alone(c, id) /\ ExecuteAgent(c, id, p)
  \/ \E c \in Slots : Step(c) \/ FaultStep(c)

\* the executor with the executions of one agent never overlapping, on a store
\* whose updates may reject
SpecSeq == Init /\ [][NextSeq]_vars

----------------------------------------------------------------------------
\* The template actions on their own: every template, parameter object,
\* credential configuration and outcome of the outbound call

ParamObjects == {NoParams} \cup {Params(fs) : fs \in SUBSET Fields}

InitAction ==
  /\ agents = [id \in AgentIds |-> NoAgent]
  /\ logs = <<>>
  /\ calls = [c \in Slots |-> IdleCall]
  /\ nExec = 0
  /\ env \in SUBSET Keys
  /\ provider = detectProvider(env)
  /\ act = IdleAct
  /\ chat = IdleChat
  /\ clock = 0
  /\ llm = IdleLlm
  /\ InitEdge

\* lines 28-58 for one agent: the switch on its template and the action called
RunAction(t, params, o) ==
  /\ act = IdleAct
  /\ LET r == RunTemplate(t, params, o, provider, env)
     IN act' = [done |-> TRUE, templateId |-> t, params |-> params, outcome |-> o,
                result |-> r.result, outbound |-> r.outbound]
  /\ UNCHANGED <<agents, logs, calls, nExec, env, provider, chat, clock, llm, Edge>>

\* the result is handed back; the next action starts afresh
ActionReturns ==
  /\ act # IdleAct
  /\ act' = IdleAct
  /\ UNCHANGED <<agents, logs, calls, nExec, env, provider, chat, clock, llm, Edge>>

NextAction ==
  \/ /\ act = IdleAct
     /\ \E t \in Templates, params \in ParamObjects, o \in Outcomes : RunAction(t, params, o)
  \/ ActionReturns

SpecAction == InitAction /\ [][NextAction]_vars


----------------------------------------------------------------------------
\* Three executions of one agent, two of them at a time: a call can start and
\* return while another one is still waiting for its action

\* bound of the model of overlapping executions: calls made
MaxOverlapping == 3

InitOverlap ==
  /\ \E h \in Histories :
        agents = [id \in AgentIds |->
                    IF id = "a1"
                    THEN [NewAgent("task-reminder", h[2]) EXCEPT !.tasksCompleted = h[1]]
                    ELSE NoAgent]
  /\ logs = <<>>
  /\ calls = [c \in Slots |-> IdleCall]
  /\ nExec = 0
  /\ env = {}
  /\ provider = detectProvider(env)
  /\ act = IdleAct
  /\ chat = IdleChat
  /\ clock = 0
  /\ llm = IdleLlm
  /\ InitEdge

NextOverlap ==
  \/ \E c \in Slots : ExecuteAgentWithin(c, "a1", Params(Fields), MaxOverlapping)
  \/ \E c \in Slots :
       \/ SetExecuting(c)
       \/ \E o \in {"ok", "refused"} : Dispatch(c, o)
       \/ UpdateMetrics(c)
       \/ UpdateStatus(c)
       \/ CreateLog(c)
       \/ Respond(c)

SpecOverlap == InitOverlap /\ [][NextOverlap]_vars

----------------------------------------------------------------------------
\* Sequential executions of one agent: each executeAgent call runs from its
\* lookup to its return before the next one starts, and the store's updates
\* resolve

\* bound of the model of sequential executions: calls made
MaxRuns == 7

\* initial successRate of a created agent (either column default)
NewRates == {0, 100}

InitRuns ==
  /\ \E t \in {"auto-email", "data-backup"}, rate \in NewRates :
        agents = [id \in AgentIds |-> IF id = "a1" THEN NewAgent(t, rate) ELSE NoAgent]
  /\ logs = <<>>
  /\ calls = [c \in Slots |-> IdleCall]
  /\ nExec = 0
  /\ env = {}
  /\ provider = detectProvider(env)
  /\ act = IdleAct
  /\ chat = IdleChat
  /\ clock = 0
  /\ llm = IdleLlm
  /\ InitEdge

\* part_004 lines 13-75 in one piece: lookup, status "executing", dispatch,
\* counters, status, log entry, return
RunToReturn(id, params, o) ==
  /\ nExec < MaxRuns
  /\ ~Absent(getAgent(agents, id))
  /\ \E agent \in {getAgent(agents, id)} :
     \E result \in {RunTemplate(agent.templateId, params, o, provider, env).result} :
       /\ agents' = updateAgentStatus(
                      updateAgentMetrics(updateAgentStatus(agents, id, "executing"), id,
                                         agent.tasksCompleted + 1,
                                         newSuccessRate(agent, result.success)),
                      id, IF result.success THEN "idle" ELSE "error")
       /\ logs' = createAgentExecutionLog(logs,
                     [agentId |-> id, exec |-> nExec + 1,
                      status |-> IF result.success THEN "success" ELSE "error"])
  /\ nExec' = nExec + 1
  /\ UNCHANGED <<calls, Others>>

NextRuns == \E params \in ExecParams, o \in {"ok", "refused"} : RunToReturn("a1", params, o)

SpecRuns == InitRuns /\ [][NextRuns]_vars

----------------------------------------------------------------------------
\* Claims about executeAgent

Found(c) == ~Absent(calls[c].agent)
Returned(c) == calls[c].pc = "returned" /\ Found(c)
Stored(c) == agents[calls[c].agentId]

\* the integer nearest to p / q, the upper one of two equally near
NearestInt(p, q) == CHOOSE k \in 0..100 : 2 * k * q - q <= 2 * p /\ 2 * p < 2 * k * q + q

\* round((oldRate * oldCount + (success ? 100 : 0)) / (oldCount + 1))
RunningAverage(old, success) ==
  NearestInt(old.successRate * old.tasksCompleted + (IF success THEN 100 ELSE 0),
             old.tasksCompleted + 1)

CountersUpdated(c) ==
  /\ Stored(c).tasksCompleted = calls[c].agent.tasksCompleted + 1
  /\ Stored(c).successRate = RunningAverage(calls[c].agent, calls[c].result.success)

C2_NotFound ==
  [][\A c \in Slots :
       (calls[c].pc = "idle" /\ calls'[c].pc # "idle"
          /\ Absent(getAgent(agents, calls'[c].agentId)))
       => /\ calls'[c].pc = "returned"
          /\ calls'[c].ret.success = FALSE
          /\ agents' = agents
          /\ logs' = logs]_vars

\* a call for an absent id has returned while a call on a1 is under way
C2_Witness ==
  \E c, d \in Slots :
    /\ calls[c].pc = "returned"
    /\ ~Found(c)
    /\ calls[c].ret = Fail("Agent not found", {})
    /\ calls[d].pc = "metrics"

\* C3: for an agent of the store and with no other execution of that agent
\* overlapping, the status is "executing" when the template action is
\* dispatched, and when the call returns the status is "idle" if the returned
\* result has success = true and "error" if it has success = false.
C3_Status ==
  \A c \in Slots :
    Found(c) =>
      /\ calls[c].pc = "dispatch" => Stored(c).status = "executing"
      /\ calls[c].pc = "returned" =>
           Stored(c).status = (IF calls[c].ret.success THEN "idle" ELSE "error")

\* the action succeeded and the status was "idle", then the log append rejected:
\* the call returned a failure and the status is "error"
C3_Witness ==
  \E c \in Slots :
    /\ Returned(c)
    /\ calls[c].result.success
    /\ calls[c].error = "createAgentExecutionLog"
    /\ ~calls[c].ret.success
    /\ Stored(c).status = "error"

EntriesOf(c) == {i \in 1..Len(logs) : logs[i].exec = calls[c].exec}

OneEntry(c) ==
  /\ Cardinality(EntriesOf(c)) = 1
  /\ \A i \in EntriesOf(c) :
       /\ logs[i].agentId = calls[c].agentId
       /\ (logs[i].status = "success") <=> calls[c].ret.success

AppendOnly == Len(logs') >= Len(logs) /\ SubSeq(logs', 1, Len(logs)) = logs

CaughtAndReported(c) ==
  /\ calls[c].ret = Fail(calls[c].error, {})
  /\ Stored(c).status = "error"
  /\ \A i \in EntriesOf(c) : logs[i].status = "error"
  /\ Cardinality(EntriesOf(c)) = 1

\* C5: whatever step of executeAgent throws after the agent was found, the
\* exception never reaches the caller: the call returns a result with
\* success = false carrying the error message, the status is "error" and one
\* log entry with status "error" is appended.
C5_NeverThrows ==
  \A c \in Slots :
    Found(c) =>
      /\ calls[c].pc # "thrown"
      /\ (Returned(c) /\ calls[c].error # "none") => CaughtAndReported(c)

\* the counters after one more execution with the given outcome
Counted(old, success) ==
  [old EXCEPT !.tasksCompleted = old.tasksCompleted + 1,
              !.successRate = RunningAverage(old, success)]

\* the agent record read first by two calls of one agent
Before(c, d) ==
  IF calls[c].agent.tasksCompleted <= calls[d].agent.tasksCompleted
  THEN calls[c].agent ELSE calls[d].agent

\* C15: when two executeAgent calls for the same agent have both returned,
\* overlapping or not, no counter update is lost: tasksCompleted has grown
\* by exactly 2 and successRate is the running average applied to both
\* outcomes.
C15_NoLostUpdate ==
  \A c, d \in Slots :
    (c # d /\ Returned(c) /\ Returned(d) /\ calls[c].agentId = calls[d].agentId)
    => LET old == Before(c, d)
           sc == calls[c].result.success
           sd == calls[d].result.success
       IN  /\ Stored(c).tasksCompleted = old.tasksCompleted + 2
           /\ Stored(c).successRate \in
                {Counted(Counted(old, sc), sd).successRate,
                 Counted(Counted(old, sd), sc).successRate}

\* C16 as stated: every executeAgent call issues at most one outbound network
\* call between its start and its return, for every template.
C16_AtMostOne == \A c \in Slots : Len(calls[c].outbound) <= 1

\* C16 amended: every executeAgent call issues at most one outbound network
\* call, except a news-summarizer execution with an LLM provider configured,
\* which issues the news fetch and then, when articles were found, one LLM
\* provider call.
C16_OutboundCalls ==
  \A c \in Slots :
    Found(c) =>
      IF calls[c].agent.templateId = "news-summarizer" /\ chatRoute(provider, env) # "mock"
      THEN calls[c].outbound \in {<<>>, <<"fetch">>, <<"fetch", "llm">>}
      ELSE Len(calls[c].outbound) <= 1

\* a news-summarizer execution with Gemini configured has returned a success
\* after the news fetch and the LLM call
C16_Witness ==
  \E c \in Slots :
    /\ Returned(c)
    /\ calls[c].agent.templateId = "news-summarizer"
    /\ calls[c].ret.success
    /\ calls[c].outbound = <<"fetch", "llm">>

\* what executeAgent reports for a template that is not implemented
NotImplemented(templateId) ==
  CASE templateId = "social-monitor" -> Fail("Social Monitor agent not yet implemented", {})
    [] templateId = "data-backup" -> Fail("Data Backup agent not yet implemented", {})
    [] OTHER -> Fail("Unknown agent template", {})

\* C19: for an agent whose templateId is "social-monitor" or "data-backup",
\* executeAgent returns success = false with a "not yet implemented" message
\* for every params value and issues no outbound call; the same holds, with
\* an "Unknown agent template" message, for any other templateId that is not
\* one of the four implemented ones (null included).
C19_StubTemplates ==
  \A c \in Slots :
    (Found(c) /\ calls[c].agent.templateId \notin ImplementedTemplates)
    => /\ calls[c].outbound = <<>>
       /\ calls[c].pc = "returned" =>
            /\ calls[c].ret.success = FALSE
            /\ calls[c].ret = NotImplemented(calls[c].agent.templateId)

\* a call with every parameter given on an agent created without a template
\* has returned while a second call on it, without params, is under way
C19_Witness ==
  \E c, d \in Slots :
    /\ Returned(c)
    /\ calls[c].agent.templateId = "null"
    /\ calls[c].params = Params(Fields)
    /\ calls[c].ret = Fail("Unknown agent template", {})
    /\ calls[c].outbound = <<>>
    /\ Found(d)
    /\ calls[d].params = NoParams
    /\ calls[d].pc = "metrics"

\* the template action of call c is under way: dispatched and not finished
ActionRunning(c) == Found(c) /\ calls[c].pc = "dispatch"

\* C25: whenever at least one executeAgent call for an agent is between its
\* dispatch and its return, the agent's status is "executing": with
\* overlapping calls on the same agent the status never shows "idle" or
\* "error" while the action of another call on that agent is still running.
C25_ExecutingWhileRunning ==
  \A c \in Slots : ActionRunning(c) => Stored(c).status = "executing"

\* C29: if an agent's successRate is an integer within 0..100 and its
\* tasksCompleted is at least 0, then after any sequence of executeAgent
\* calls successRate is still an integer within 0..100 and tasksCompleted has
\* never decreased.
C29_InRange ==
  /\ [](\A id \in AgentIds :
          ~Absent(agents[id]) => agents[id].successRate \in 0..100)
  /\ [][\A id \in AgentIds :
          (~Absent(agents[id]) /\ ~Absent(agents'[id]))
          => agents'[id].tasksCompleted >= agents[id].tasksCompleted]_vars

\* the calls made on agent a1 so far and the successes among them
CallsMade == agents["a1"].tasksCompleted
Successes == Cardinality({i \in 1..Len(logs) : logs[i].status = "success"})

TruePercentage == NearestInt(100 * Successes, CallsMade)

\* C22 as stated: for an agent created with tasksCompleted = 0 and executed
\* only through sequential executeAgent calls, after n calls of which s
\* succeeded successRate equals round(100 * s / n).
C22_TruePercentage ==
  CallsMade >= 1 => agents["a1"].successRate = TruePercentage

\* C22 amended: for an agent created with tasksCompleted = 0 and executed
\* only through sequential executeAgent calls, after n <= 6 calls of which s
\* succeeded successRate equals round(100 * s / n); from the seventh call on
\* the rounding of the earlier rates is carried along and the rate can differ
\* from the true percentage.
C22_FirstSixCalls ==
  CallsMade \in 1..6 => agents["a1"].successRate = TruePercentage

\* one success among six calls: the rate is 17, the rounded 16.67
C22_Witness ==
  /\ CallsMade = 6
  /\ Successes = 1
  /\ logs[1].status = "success"
  /\ agents["a1"].successRate = 17

----------------------------------------------------------------------------
\* Claims about the template actions

\* the parameters each implemented template requires
Required(t) ==
  CASE t = "auto-email" -> {"to", "subject", "body"}
    [] t = "weather-report" -> {"location", "apiKey"}
    [] t = "news-summarizer" -> {"topic", "apiKey"}
    [] t = "task-reminder" -> {"task", "reminderEmail"}

MissingOf(t, params) == Required(t) \ params.fields

\* C6: for each of the four implemented templates, when a required parameter
\* is missing (or params is absent) the action returns success = false with a
\* message naming a missing parameter and issues no outbound call.
C6_MissingParameter ==
  (act # IdleAct /\ act.templateId \in ImplementedTemplates
     /\ MissingOf(act.templateId, act.params) # {})
  => /\ act.result.success = FALSE
     /\ act.result.message.names \cap MissingOf(act.templateId, act.params) # {}
     /\ act.outbound = <<>>

\* the weather action was given a location and no apiKey: it names apiKey and
\* does not fetch
C6_Witness ==
  /\ act # IdleAct
  /\ act.templateId = "weather-report"
  /\ act.params = Params({"location", "to"})
  /\ act.outcome = "ok"
  /\ act.result = Fail("Missing required parameter", {"apiKey"})
  /\ act.outbound = <<>>


----------------------------------------------------------------------------
\* Strings are sequences of one-character strings

UpperCase == <<"A", "B", "C", "D", "E", "F", "G", "H", "I", "J", "K", "L", "M", "N", "O", "P", "Q", "R", "S", "T", "U", "V", "W", "X", "Y", "Z">>
LowerCase == <<"a", "b", "c", "d", "e", "f", "g", "h", "i", "j", "k", "l", "m", "n", "o", "p", "q", "r", "s", "t", "u", "v", "w", "x", "y", "z">>

\* Mutant of toLowerCase: the text is left as it is
toLowerCaseKeepsCase(str) == str

\* String.prototype.toLowerCase on the letters A-Z
toLowerCase(str) ==
  [i \in 1..Len(str) |->
     IF \E k \in 1..Len(UpperCase) : UpperCase[k] = str[i]
     THEN LowerCase[CHOOSE k \in 1..Len(UpperCase) : UpperCase[k] = str[i]]
     ELSE str[i]]

\* String.prototype.includes
includes(str, kw) ==
  \E i \in 1..(Len(str) - Len(kw) + 1) : SubSeq(str, i, i + Len(kw) - 1) = kw


----------------------------------------------------------------------------
\* The provider adapter (llm/LLMProvider.ts)

getProvider(p) == p

\* a response text: its Markdown fence ("none", "json", "plain"), whether the
\* rest parses as JSON, and what it says
Text(fence, json, value) == [fence |-> fence, json |-> json, value |-> value]

ChatResponse(content, p) == [content |-> content, provider |-> p]

\* the awaited upstream call: it fails, or answers a text
UpstreamFails == [ok |-> FALSE]
UpstreamAnswers(text) == [ok |-> TRUE, text |-> text]

MockNotice == Text("none", FALSE, [notice |-> "Running in mock mode (no LLM API configured)"])

\* messages[messages.length - 1]?.content || ""
lastMessage(messages) == IF Len(messages) = 0 THEN "" ELSE messages[Len(messages)].content

\* Mutant of mockChat: the canned text quotes the last message
mockChatEchoes(messages) ==
  ChatResponse(Text("none", FALSE, [notice |-> lastMessage(messages)]), "mock")

\* lines 428-446: lastMessage is computed and not used
mockChat(messages) == ChatResponse(MockNotice, "mock")

\* lines 39-160: chatWith<Provider> returns the upstream text, or mockChat
\* from its catch block
chatOf(p, e, messages, up) ==
  IF chatRoute(p, e) = "mock" THEN mockChat(messages)
  ELSE IF up.ok THEN ChatResponse(up.text, chatRoute(p, e))
  ELSE mockChat(messages)

\* generateQuiz() and generateSchedule(): only Gemini and OpenAI are called
jsonRoute(p, e) ==
  IF p = "gemini" /\ "GEMINI_API_KEY" \in e THEN "gemini"
  ELSE IF p = "openai" /\ "OPENAI_API_KEY" \in e THEN "openai"
  ELSE "mock"

\* text.replace(/```json\n?/g, '').replace(/```\n?/g, '').trim()
cleanedText(text) == [text EXCEPT !.fence = "none"]

mockQuiz(topic) == ChatResponse(Text("none", TRUE, [mockQuizAbout |-> topic]), "mock")

mockSchedule(topic, duration) ==
  ChatResponse(Text("none", TRUE, [mockScheduleFor |-> topic, totalDuration |-> duration]),
               "mock")

\* lines 162-172, 186-279
generateQuizOf(p, e, topic, up) ==
  IF jsonRoute(p, e) = "mock" THEN mockQuiz(topic)
  ELSE IF up.ok THEN ChatResponse(cleanedText(up.text), jsonRoute(p, e))
  ELSE mockQuiz(topic)

\* lines 174-184, 303-401
generateScheduleOf(p, e, topic, duration, up) ==
  IF jsonRoute(p, e) = "mock" THEN mockSchedule(topic, duration)
  ELSE IF up.ok THEN ChatResponse(cleanedText(up.text), jsonRoute(p, e))
  ELSE mockSchedule(topic, duration)

\* inputs of the provider-adapter model
MessageLists ==
  {<<>>,
   <<[role |-> "user", content |-> "hello"]>>,
   <<[role |-> "system", content |-> "be brief"], [role |-> "user", content |-> "book a hotel"]>>}
Topics == {"", "algebra"}
Durations == {"1 week", "2 days"}
Upstreams ==
  {UpstreamFails,
   UpstreamAnswers(Text("none", FALSE, [said |-> "prose"])),
   UpstreamAnswers(Text("json", TRUE, [said |-> "object"]))}

\* Mutant of upstreamCalls: a failed upstream call is made a second time
upstreamCallsRetried(route, up) ==
  IF route = "mock" THEN <<>> ELSE IF up.ok THEN <<route>> ELSE <<route, route>>

\* the upstream calls of one adapter call: the chatWith<Provider> and
\* generate<X>With<Provider> methods await one request and hold no loop
upstreamCalls(route, up) == IF route = "mock" THEN <<>> ELSE <<route>>

LlmCall(op, input, up, route, response) ==
  [done |-> TRUE, op |-> op, input |-> input, upstream |-> up, route |-> route,
   outbound |-> upstreamCalls(route, up), response |-> response]

NotLlm == <<agents, logs, calls, nExec, env, provider, act, chat, clock, Edge>>

Chat(messages, up) ==
  /\ llm = IdleLlm
  /\ llm' = LlmCall("chat", messages, up, chatRoute(provider, env),
                    chatOf(provider, env, messages, up))
  /\ UNCHANGED NotLlm

GenerateQuiz(topic, up) ==
  /\ llm = IdleLlm
  /\ llm' = LlmCall("generateQuiz", <<topic>>, up, jsonRoute(provider, env),
                    generateQuizOf(provider, env, topic, up))
  /\ UNCHANGED NotLlm

GenerateSchedule(topic, duration, up) ==
  /\ llm = IdleLlm
  /\ llm' = LlmCall("generateSchedule", <<topic, duration>>, up, jsonRoute(provider, env),
                    generateScheduleOf(provider, env, topic, duration, up))
  /\ UNCHANGED NotLlm

\* the response is handed to the caller
LlmReturns ==
  /\ llm # IdleLlm
  /\ llm' = IdleLlm
  /\ UNCHANGED NotLlm

\* the state after "new LLMProvider()", for every credential configuration
InitLlm ==
  /\ agents = [id \in AgentIds |-> NoAgent]
  /\ logs = <<>>
  /\ calls = [c \in Slots |-> IdleCall]
  /\ nExec = 0
  /\ env \in SUBSET Keys
  /\ provider = detectProvider(env)
  /\ act = IdleAct
  /\ chat = IdleChat
  /\ clock = 0
  /\ llm = IdleLlm
  /\ InitEdge

NextLlm ==
  \/ \E m \in MessageLists, up \in Upstreams : Chat(m, up)
  \/ \E t \in Topics, up \in Upstreams : GenerateQuiz(t, up)
  \/ \E t \in Topics, d \in Durations, up \in Upstreams : GenerateSchedule(t, d, up)
  \/ LlmReturns

SpecLlm == InitLlm /\ [][NextLlm]_vars

----------------------------------------------------------------------------
\* Claims about the provider adapter

\* the credentials in their fixed order, and the provider each selects
Priority ==
  <<[key |-> "GEMINI_API_KEY", name |-> "gemini"],
    [key |-> "OPENAI_API_KEY", name |-> "openai"],
    [key |-> "ANTHROPIC_API_KEY", name |-> "anthropic"]>>

Configured(e) == {i \in 1..Len(Priority) : Priority[i].key \in e}

FirstConfigured(e) ==
  IF Configured(e) = {} THEN "mock"
  ELSE Priority[CHOOSE i \in Configured(e) : \A j \in Configured(e) : i <= j].name

\* C9: the provider is the first configured credential in the order Gemini,
\* OpenAI, Anthropic, "mock" when none is configured, and getProvider()
\* returns that value after every call.
C9_ProviderFixed ==
  /\ [](getProvider(provider) = FirstConfigured(env))
  /\ [][getProvider(provider)' = getProvider(provider)]_vars

\* OpenAI and Anthropic are configured, the upstream call of a chat failed and
\* the response is the mock one: the provider is still "openai"
C9_Witness ==
  /\ env = {"OPENAI_API_KEY", "ANTHROPIC_API_KEY"}
  /\ llm # IdleLlm
  /\ llm.op = "chat"
  /\ llm.upstream = UpstreamFails
  /\ llm.response.provider = "mock"
  /\ getProvider(provider) = "openai"

\* the mock response of each call shape, from its arguments
MockOf(call) ==
  CASE call.op = "chat" -> ChatResponse(MockNotice, "mock")
    [] call.op = "generateQuiz" -> mockQuiz(call.input[1])
    [] call.op = "generateSchedule" -> mockSchedule(call.input[1], call.input[2])

\* C11: when the call to the selected upstream provider fails, chat,
\* generateQuiz and generateSchedule each return their mock response, tagged
\* "mock", and the upstream call was made once.
C11_UpstreamFailure ==
  (llm # IdleLlm /\ llm.route # "mock" /\ llm.upstream = UpstreamFails)
  => /\ llm.response.provider = "mock"
     /\ llm.response = MockOf(llm)
     /\ llm.outbound = <<llm.route>>

\* OpenAI is selected, its quiz call failed: the mock quiz of the topic
C11_Witness ==
  /\ llm # IdleLlm
  /\ provider = "openai"
  /\ llm.op = "generateQuiz"
  /\ llm.upstream = UpstreamFails
  /\ llm.outbound = <<"openai">>
  /\ llm.response = mockQuiz("algebra")

\* C13: whenever a credential is configured and the upstream call succeeds,
\* generateQuiz and generateSchedule return the upstream text tagged with the
\* configured provider; they return the mock payload only when no credential
\* is configured or the upstream call fails.
C13_UpstreamText ==
  (llm # IdleLlm /\ llm.op \in {"generateQuiz", "generateSchedule"})
  => /\ (env # {} /\ llm.outbound # <<>> /\ llm.upstream.ok)
          => llm.response = ChatResponse(cleanedText(llm.upstream.text), FirstConfigured(env))
     /\ llm.response = MockOf(llm)
          => \/ env = {}
             \/ llm.outbound # <<>> /\ ~llm.upstream.ok

\* C10: when no credential is configured, chat, generateQuiz and
\* generateSchedule each answer locally with a response tagged "mock", and the
\* chat content is the same canned text whatever the messages are.
C10_MockMode ==
  (llm # IdleLlm /\ env = {})
  => /\ llm.route = "mock"
     /\ llm.response.provider = "mock"
     /\ llm.op = "chat" => llm.response.content = MockNotice

\* no credential, a chat of two messages: the canned text
C10_Witness ==
  /\ env = {}
  /\ llm # IdleLlm
  /\ llm.op = "chat"
  /\ Len(llm.input) = 2
  /\ llm.response = ChatResponse(MockNotice, "mock")


----------------------------------------------------------------------------
\* The project generator (services/ProjectGenerator.ts)

\* JavaScript values of a parsed reply
Undefined == [type |-> "undefined"]
Null == [type |-> "null"]
\* a string given whole, and a string given by its characters
Str(s) == [type |-> "string", s |-> s, empty |-> s = ""]
Chars(s) == [type |-> "string", s |-> s, empty |-> s = <<>>]
Array(items) == [type |-> "array", items |-> items]
FileObject(path, content, language) ==
  [type |-> "object", path |-> path, content |-> content, language |-> language]
ProjectObject(name, description, files, instructions) ==
  [type |-> "object", name |-> name, description |-> description, files |-> files,
   instructions |-> instructions]

\* !v for the values above: undefined, null and the empty string are falsy
Falsy(v) ==
  \/ v.type \in {"undefined", "null"}
  \/ v.type = "string" /\ v.empty

Threw(error) == [threw |-> TRUE, error |-> error]
Value(v) == [threw |-> FALSE, value |-> v]

\* line 63-65: the fences are removed when the text starts with one
stripFences(text) == IF text.fence # "none" THEN [text EXCEPT !.fence = "none"] ELSE text

\* JSON.parse
JSONparse(text) ==
  IF text.fence = "none" /\ text.json THEN Value(text.value) ELSE Threw("SyntaxError")

\* filename.split(".").pop()
splitPop(filename) ==
  LET dots == {i \in 1..Len(filename) : filename[i] = "."}
      last == IF dots = {} THEN 0 ELSE CHOOSE i \in dots : \A j \in dots : j <= i
  IN  SubSeq(filename, last + 1, Len(filename))

languageMap ==
  {<<<<"h", "t", "m", "l">>, "html">>, <<<<"c", "s", "s">>, "css">>, <<<<"j", "s">>, "javascript">>, <<<<"t", "s">>, "typescript">>,
   <<<<"j", "s", "o", "n">>, "json">>, <<<<"m", "d">>, "markdown">>, <<<<"p", "y">>, "python">>, <<<<"j", "a", "v", "a">>, "java">>,
   <<<<"c", "p", "p">>, "cpp">>, <<<<"c">>, "c">>, <<<<"g", "o">>, "go">>, <<<<"r", "s">>, "rust">>}

\* lower-case property names every object literal inherits
inheritedKeys == {<<"c", "o", "n", "s", "t", "r", "u", "c", "t", "o", "r">>, <<"_", "_", "p", "r", "o", "t", "o", "_", "_">>}

\* lines 90-107; a filename that is no string has no split method
detectLanguage(filename) ==
  IF filename.type # "string" THEN Threw("TypeError")
  ELSE LET ext == toLowerCase(splitPop(filename.s))
       IN  IF \E e \in languageMap : e[1] = ext
           THEN Value(Str((CHOOSE e \in languageMap : e[1] = ext)[2]))
           ELSE IF ext \in inheritedKeys THEN Value([type |-> "inherited", key |-> ext])
           ELSE Value(Str("text"))

UnnamedTxt == <<"u", "n", "n", "a", "m", "e", "d", ".", "t", "x", "t">>

\* lines 75-79, one element of the map
normaliseFile(file) ==
  IF file.type # "object" THEN Threw("TypeError")
  ELSE LET language == IF Falsy(file.language) THEN detectLanguage(file.path)
                       ELSE Value(file.language)
       IN  IF language.threw THEN language
           ELSE Value([path |-> IF Falsy(file.path) THEN Chars(UnnamedTxt) ELSE file.path,
                       content |-> IF Falsy(file.content) THEN Str("") ELSE file.content,
                       language |-> language.value])

IndexHtml == <<"i", "n", "d", "e", "x", ".", "h", "t", "m", "l">>
StyleCss == <<"s", "t", "y", "l", "e", ".", "c", "s", "s">>
ScriptJs == <<"s", "c", "r", "i", "p", "t", ".", "j", "s">>
ReadmeMd == <<"R", "E", "A", "D", "M", "E", ".", "m", "d">>

\* Mutant of getFallbackProject: the scaffold of three files, without the README
getFallbackProjectThreeFiles(description) ==
  [name |-> Str("simple-project"),
   description |-> Chars(description),
   files |-> <<[path |-> Chars(IndexHtml), content |-> Str("page titled with the description"),
                language |-> Str("html")],
               [path |-> Chars(StyleCss), content |-> Str("style sheet"),
                language |-> Str("css")],
               [path |-> Chars(ScriptJs), content |-> Str("script"),
                language |-> Str("javascript")]>>,
   instructions |-> Str("Simply open index.html in a web browser to view the project. No build step required!")]

\* lines 109-203
getFallbackProject(description) ==
  [name |-> Str("simple-project"),
   description |-> Chars(description),
   files |-> <<[path |-> Chars(IndexHtml), content |-> Str("page titled with the description"),
                language |-> Str("html")],
               [path |-> Chars(StyleCss), content |-> Str("style sheet"),
                language |-> Str("css")],
               [path |-> Chars(ScriptJs), content |-> Str("script"),
                language |-> Str("javascript")],
               [path |-> Chars(ReadmeMd), content |-> Str("readme quoting the description"),
                language |-> Str("markdown")]>>,
   instructions |-> Str("Simply open index.html in a web browser to view the project. No build step required!")]

GeneratorMessages(description) ==
  <<[role |-> "system", content |-> "You are an expert project generator."],
    [role |-> "user", content |-> [prompt |-> "project generator", description |-> description]]>>

Returns(project) == [threw |-> FALSE, project |-> project]

\* lines 59-81: the body of the try block, whose result is a project or an
\* exception
tryGenerate(response) ==
  LET parsed == JSONparse(stripFences(response.content))
  IN  IF parsed.threw THEN parsed
      ELSE LET project == parsed.value
           IN  IF project.type = "null" THEN Threw("TypeError")
               ELSE IF project.type # "object" THEN Threw("Invalid project structure from AI")
               ELSE IF Falsy(project.name) \/ Falsy(project.files) \/ project.files.type # "array"
                    THEN Threw("Invalid project structure from AI")
               ELSE LET items == project.files.items
                        files == [i \in 1..Len(items) |-> normaliseFile(items[i])]
                    IN  IF \E i \in 1..Len(items) : files[i].threw
                        THEN Threw("TypeError")
                        ELSE Value([name |-> project.name,
                                    description |-> project.description,
                                    files |-> [i \in 1..Len(items) |-> files[i].value],
                                    instructions |-> project.instructions])

\* Mutant of generateProject: the exception of the try block is thrown on
generateProjectRethrows(description, p, e, up) ==
  LET try == tryGenerate(chatOf(p, e, GeneratorMessages(description), up))
  IN  IF try.threw THEN try ELSE Returns(try.value)

\* lines 17-88
generateProject(description, p, e, up) ==
  LET try == tryGenerate(chatOf(p, e, GeneratorMessages(description), up))
  IN  IF try.threw THEN Returns(getFallbackProject(description)) ELSE Returns(try.value)

----------------------------------------------------------------------------
\* The unified message router (agents/AgentManager.ts, UnifiedAgentCoordinator)

learningKeywords ==
  {<<"l", "e", "a", "r", "n">>,
   <<"s", "t", "u", "d", "y">>,
   <<"q", "u", "i", "z">>,
   <<"t", "e", "a", "c", "h">>,
   <<"e", "x", "p", "l", "a", "i", "n">>,
   <<"c", "o", "u", "r", "s", "e">>,
   <<"l", "e", "s", "s", "o", "n">>}

bookingKeywords ==
  {<<"b", "o", "o", "k">>,
   <<"r", "e", "s", "e", "r", "v", "e">>,
   <<"h", "o", "t", "e", "l">>,
   <<"f", "l", "i", "g", "h", "t">>,
   <<"r", "e", "s", "t", "a", "u", "r", "a", "n", "t">>,
   <<"t", "r", "a", "v", "e", "l">>}

codeKeywords ==
  {<<"c", "o", "d", "e">>,
   <<"p", "r", "o", "g", "r", "a", "m">>,
   <<"d", "e", "b", "u", "g">>,
   <<"f", "u", "n", "c", "t", "i", "o", "n">>,
   <<"s", "y", "n", "t", "a", "x">>,
   <<"e", "r", "r", "o", "r">>,
   <<"b", "u", "g">>}

projectKeywords ==
  {<<"c", "r", "e", "a", "t", "e", " ", "a", " ", "p", "r", "o", "j", "e", "c", "t">>,
   <<"b", "u", "i", "l", "d", " ", "a", " ", "p", "r", "o", "j", "e", "c", "t">>,
   <<"g", "e", "n", "e", "r", "a", "t", "e", " ", "a", " ", "p", "r", "o", "j", "e", "c", "t">>,
   <<"m", "a", "k", "e", " ", "a", " ", "p", "r", "o", "j", "e", "c", "t">>,
   <<"c", "r", "e", "a", "t", "e", " ", "p", "r", "o", "j", "e", "c", "t">>,
   <<"b", "u", "i", "l", "d", " ", "p", "r", "o", "j", "e", "c", "t">>}

isLearningQuery(message) == \E kw \in learningKeywords : includes(toLowerCase(message), kw)
isBookingQuery(message) == \E kw \in bookingKeywords : includes(toLowerCase(message), kw)
isCodeQuery(message) == \E kw \in codeKeywords : includes(toLowerCase(message), kw)
isProjectGenerationQuery(message) ==
  \E kw \in projectKeywords : includes(toLowerCase(message), kw)

\* lines 123-141: the labels pushed on the classification path
classify(message) ==
  LET pushed == (IF isLearningQuery(message) THEN <<"Learning Assistant">> ELSE <<>>)
                \o (IF isBookingQuery(message) THEN <<"Booking Navigator">> ELSE <<>>)
                \o (IF isCodeQuery(message) THEN <<"Code Helper">> ELSE <<>>)
  IN  IF Len(pushed) = 0 THEN <<"General Assistant">> ELSE pushed

\* lines 143-166
CoordinatorMessages(message, agentsUsed) ==
  <<[role |-> "system", content |-> [coordinating |-> agentsUsed]],
    [role |-> "user", content |-> message]>>

\* `proj-${Date.now()}`
ProjectId(now) == [prefix |-> "proj-", now |-> now]

\* Mutant of handleMessage: the project path also pushes the labels of the
\* classification
handleMessageClassifiesToo(message, p, e, up, now) ==
  IF isProjectGenerationQuery(message)
  THEN [response |-> [kind |-> "Project Generated"],
        agentsUsed |-> <<"Project Generator">> \o classify(message),
        projectId |-> ProjectId(now),
        projectData |-> generateProject(message, p, e, up).project]
  ELSE [response |-> chatOf(p, e, CoordinatorMessages(message, classify(message)), up).content,
        agentsUsed |-> classify(message)]

\* lines 98-174, given the reply of the one upstream call and the clock
handleMessage(message, p, e, up, now) ==
  IF isProjectGenerationQuery(message)
  THEN LET gen == generateProject(message, p, e, up)
       IN  IF gen.threw
           THEN [response |-> [kind |-> "I encountered an error generating your project",
                               error |-> gen.error],
                 agentsUsed |-> <<"Project Generator">>]
           ELSE [response |-> [kind |-> "Project Generated",
                               name |-> gen.project.name,
                               description |-> gen.project.description,
                               paths |-> [i \in 1..Len(gen.project.files) |->
                                            gen.project.files[i].path]],
                 agentsUsed |-> <<"Project Generator">>,
                 projectId |-> ProjectId(now),
                 projectData |-> gen.project]
  ELSE LET agentsUsed == classify(message)
       IN  [response |-> chatOf(p, e, CoordinatorMessages(message, agentsUsed), up).content,
            agentsUsed |-> agentsUsed]

\* bounds of the router model
MaxFragments == 2
MaxClock == 1

\* the pieces the messages are made of
Fragments ==
  {<<"B", "o">>, <<"o", "k", " ">>, <<"t", "e", "a", "c", "h", " ">>,
   <<"d", "e", "B", "U", "G", " ", "H", "o", "t", "e", "l", " ">>,
   <<"C", "r", "e", "a", "t", "e", " ">>, <<"a", " ">>, <<"P", "r", "o", "j", "e", "c", "t", " ">>,
   <<"B", "u", "i", "l", "d", " ", "P", "r", "o", "j", "e", "c", "t", " ", "c", "o", "d", "e", " ">>}

RECURSIVE Concatenations(_)
Concatenations(n) ==
  IF n = 0 THEN {<<>>}
  ELSE LET shorter == Concatenations(n - 1)
       IN  shorter \cup {m \o f : m \in shorter, f \in Fragments}

Messages == Concatenations(MaxFragments)

\* replies of the upstream provider to the coordinator's call
TodoApp == <<"t", "o", "d", "o", " ", "a", "p", "p">>
AppTs == <<"s", "r", "c", "/", "A", "p", "p", ".", "T", "S">>
Makefile == <<"M", "a", "k", "e", "f", "i", "l", "e">>
GoodProject ==
  ProjectObject(Str("todo-app"), Chars(TodoApp),
                Array(<<FileObject(Chars(IndexHtml), Str("<html>"), Str("html")),
                        FileObject(Chars(AppTs), Undefined, Undefined),
                        FileObject(Undefined, Str("all:"), Str("make")),
                        FileObject(Chars(Makefile), Str("all:"), Undefined)>>),
                Str("npm start"))
Replies ==
  {UpstreamFails,
   UpstreamAnswers(Text("none", FALSE, [said |-> "prose"])),
   UpstreamAnswers(Text("json", TRUE, GoodProject)),
   UpstreamAnswers(Text("none", TRUE, GoodProject)),
   UpstreamAnswers(Text("none", TRUE, [GoodProject EXCEPT !.name = Undefined])),
   UpstreamAnswers(Text("none", TRUE, [GoodProject EXCEPT !.files = Str("none")])),
   UpstreamAnswers(Text("plain", TRUE,
                        [GoodProject EXCEPT !.files =
                           Array(<<FileObject(Undefined, Str("x"), Undefined)>>)])),
   UpstreamAnswers(Text("none", TRUE, Null))}

\* credential configurations of the router model
ChatEnvs == {{}, {"OPENAI_API_KEY", "ANTHROPIC_API_KEY"}}

NotChat == <<agents, logs, calls, nExec, env, provider, act, clock, llm, Edge>>

\* Mutant of chatCallsOf: the project path asks the adapter nothing
chatCallsOfSkipsGenerator(message) ==
  IF isProjectGenerationQuery(message) THEN <<>> ELSE <<"handleMessage">>

\* the llmProvider.chat calls of one handleMessage, by their caller: the one in
\* generateProject (part_002:48) on the project path, the one at line 168
\* otherwise; neither sits in a loop
chatCallsOf(message) ==
  IF isProjectGenerationQuery(message) THEN <<"generateProject">> ELSE <<"handleMessage">>

\* the message lists handleMessage hands to llmProvider.chat, itself (line
\* 168) or through generateProject (part_002:48-57)
promptsOf(message) ==
  IF isProjectGenerationQuery(message) THEN <<GeneratorMessages(message)>>
  ELSE <<CoordinatorMessages(message, classify(message))>>

\* a request enters handleMessage, which runs up to its one await
HandleMessage(message) ==
  /\ chat = IdleChat
  /\ chat' = [pc |-> "awaiting", message |-> message,
              awaits |-> IF isProjectGenerationQuery(message) THEN "generateProject"
                         ELSE "chat",
              chatCalls |-> chatCallsOf(message),
              prompts |-> promptsOf(message)]
  /\ UNCHANGED NotChat

\* the awaited call completes and handleMessage runs to its return
ProviderReplies(up) ==
  /\ chat.pc = "awaiting"
  /\ chat' = [pc |-> "returned", message |-> chat.message, awaits |-> chat.awaits,
              chatCalls |-> chat.chatCalls, prompts |-> chat.prompts,
              upstream |-> IF chatRoute(provider, env) = "mock" THEN [called |-> FALSE]
                           ELSE up,
              result |-> handleMessage(chat.message, provider, env, up, clock)]
  /\ UNCHANGED NotChat

\* the result is handed to the route
MessageReturns ==
  /\ chat.pc = "returned"
  /\ chat' = IdleChat
  /\ UNCHANGED NotChat

\* Date.now() advances
Tick ==
  /\ clock < MaxClock
  /\ clock' = clock + 1
  /\ UNCHANGED <<agents, logs, calls, nExec, env, provider, act, chat, llm, Edge>>

InitChat ==
  /\ agents = [id \in AgentIds |-> NoAgent]
  /\ logs = <<>>
  /\ calls = [c \in Slots |-> IdleCall]
  /\ nExec = 0
  /\ env \in ChatEnvs
  /\ provider = detectProvider(env)
  /\ act = IdleAct
  /\ chat = IdleChat
  /\ clock = 0
  /\ llm = IdleLlm
  /\ InitEdge

NextChat ==
  \/ /\ chat = IdleChat
     /\ \E m \in Messages : HandleMessage(m)
  \/ \E up \in Replies : ProviderReplies(up)
  \/ MessageReturns
  \/ Tick

SpecChat == InitChat /\ [][NextChat]_vars

----------------------------------------------------------------------------
\* Claims about the unified message router

\* two characters that are the same letter, whatever their case
SameLetter(a, b) ==
  \/ a = b
  \/ \E k \in 1..Len(LowerCase) : {a, b} = {LowerCase[k], UpperCase[k]}

\* the phrase occurs in the message at some position, case-insensitively
Occurs(phrase, message) ==
  \E off \in 0..(Len(message) - Len(phrase)) :
    \A j \in 1..Len(phrase) : SameLetter(message[off + j], phrase[j])

HasProjectPhrase(message) == \E ph \in projectKeywords : Occurs(ph, message)

HasReturned(c) == c.pc = "returned"

\* C7: for every message containing a project-generation phrase,
\* handleMessage returns an agentsUsed list that contains "Project Generator"
\* together with a projectId and a projectData value.
C7_ProjectPath ==
  (HasReturned(chat) /\ HasProjectPhrase(chat.message))
  => /\ \E i \in 1..Len(chat.result.agentsUsed) :
          chat.result.agentsUsed[i] = "Project Generator"
     /\ {"projectId", "projectData"} \subseteq DOMAIN chat.result

\* "Create Project " was sent, the upstream reply was prose, and the result
\* carries the fallback scaffold under an id
C7_Witness ==
  /\ HasReturned(chat)
  /\ HasProjectPhrase(chat.message)
  /\ chat.upstream = UpstreamAnswers(Text("none", FALSE, [said |-> "prose"]))
  /\ chat.result.agentsUsed = <<"Project Generator">>
  /\ chat.result.projectId = ProjectId(clock)
  /\ chat.result.projectData.name = Str("simple-project")

\* the three labels in their order, each with its keyword set
Labels ==
  <<[label |-> "Learning Assistant", keywords |-> learningKeywords],
    [label |-> "Booking Navigator", keywords |-> bookingKeywords],
    [label |-> "Code Helper", keywords |-> codeKeywords]>>

Matches(l, message) == \E kw \in l.keywords : Occurs(kw, message)

RECURSIVE MatchingLabels(_, _)
MatchingLabels(i, message) ==
  IF i > Len(Labels) THEN <<>>
  ELSE (IF Matches(Labels[i], message) THEN <<Labels[i].label>> ELSE <<>>)
       \o MatchingLabels(i + 1, message)

\* C8: for every message without a project-generation phrase, agentsUsed is
\* the labels whose keyword set matches the message case-insensitively, in the
\* order Learning Assistant, Booking Navigator, Code Helper; it is
\* <<"General Assistant">> exactly when no set matches, and never empty.
C8_Classification ==
  (HasReturned(chat) /\ ~HasProjectPhrase(chat.message))
  => LET matching == MatchingLabels(1, chat.message)
         agentsUsed == chat.result.agentsUsed
     IN  /\ matching # <<>> => agentsUsed = matching
         /\ (agentsUsed = <<"General Assistant">>) <=> (matching = <<>>)
         /\ agentsUsed # <<>>

\* "teach deBUG Hotel " matches the three sets at once
C8_Witness ==
  /\ HasReturned(chat)
  /\ ~HasProjectPhrase(chat.message)
  /\ chat.result.agentsUsed = <<"Learning Assistant", "Booking Navigator", "Code Helper">>
  /\ \E i \in 1..Len(chat.message) : chat.message[i] \in {"B", "U", "G"}

\* the reply generateProject received does not parse as JSON (the mock text
\* and the text returned after an upstream failure included), or parses to
\* something without a non-empty name or without an array files
Malformed(c) ==
  IF "called" \in DOMAIN c.upstream THEN TRUE
  ELSE IF ~c.upstream.ok THEN TRUE
  ELSE IF ~c.upstream.text.json THEN TRUE
  ELSE LET v == c.upstream.text.value
       IN  \/ v.type # "object"
           \/ v.name.type # "string"
           \/ v.name.empty
           \/ v.files.type # "array"

FallbackPaths == <<Chars(IndexHtml), Chars(StyleCss), Chars(ScriptJs), Chars(ReadmeMd)>>

\* C12: generateProject never throws, and whenever the upstream reply does not
\* parse as JSON or lacks a name or an array files (mock-mode output
\* included) it returns the fallback scaffold: exactly the 4 files index.html,
\* style.css, script.js, README.md, and the input description.
C12_FallbackScaffold ==
  (HasReturned(chat) /\ chat.awaits = "generateProject")
  => /\ "projectData" \in DOMAIN chat.result
     /\ Malformed(chat) =>
          LET project == chat.result.projectData
          IN  /\ project.name = Str("simple-project")
              /\ [i \in 1..Len(project.files) |-> project.files[i].path] = FallbackPaths
              /\ project.description = Chars(chat.message)

\* the upstream reply parsed to an object whose files is no array: the scaffold
C12_Witness ==
  /\ HasReturned(chat)
  /\ chat.awaits = "generateProject"
  /\ "ok" \in DOMAIN chat.upstream
  /\ chat.upstream.ok
  /\ chat.upstream.text.json
  /\ Malformed(chat)
  /\ Len(chat.result.projectData.files) = 4
  /\ chat.result.projectData.files[4].path = Chars(ReadmeMd)
  /\ chat.result.projectData.description = Chars(chat.message)

TableLanguage(path) ==
  LET ext == splitPop(path)
      rows == {e \in languageMap :
                 /\ Len(e[1]) = Len(ext)
                 /\ \A j \in 1..Len(ext) : SameLetter(ext[j], e[1][j])}
  IN  IF rows = {} THEN "text" ELSE (CHOOSE e \in rows : TRUE)[2]

\* a file of the reply, normalised
Normalised(file) ==
  LET path == IF Falsy(file.path) THEN Chars(UnnamedTxt) ELSE file.path
  IN  [path |-> path,
       content |-> IF Falsy(file.content) THEN Str("") ELSE file.content,
       language |-> IF Falsy(file.language) THEN Str(TableLanguage(path.s))
                    ELSE file.language]

\* C28: for every upstream reply that parses to an object with a non-empty
\* name and an array files, generateProject returns that project (not the
\* fallback scaffold) with every file normalised: a missing path becomes
\* "unnamed.txt", a missing content becomes "", and a missing language is
\* inferred from the path's extension through the fixed lookup table, "text"
\* for an unknown extension.
C28_NormalisedProject ==
  (HasReturned(chat) /\ chat.awaits = "generateProject" /\ ~Malformed(chat))
  => LET reply == chat.upstream.text.value
         project == chat.result.projectData
     IN  /\ project.name = reply.name
         /\ Len(project.files) = Len(reply.files.items)
         /\ \A i \in 1..Len(project.files) :
              project.files[i] = Normalised(reply.files.items[i])

\* C21: when a message contains a project-generation phrase, handleMessage
\* returns early: agentsUsed is exactly <<"Project Generator">> even if the
\* message also contains learning, booking or code keywords, and the
\* router's own classification prompt is never sent to the provider (the one
\* prompt sent is the generator's).
C21_EarlyReturn ==
  (chat # IdleChat /\ HasProjectPhrase(chat.message))
  => /\ chat.prompts = <<GeneratorMessages(chat.message)>>
     /\ HasReturned(chat) => chat.result.agentsUsed = <<"Project Generator">>

\* "deBUG Hotel Build Project code " has returned: the phrase and keywords of
\* two labels
C21_Witness ==
  /\ HasReturned(chat)
  /\ HasProjectPhrase(chat.message)
  /\ MatchingLabels(1, chat.message) = <<"Booking Navigator", "Code Helper">>
  /\ chat.result.agentsUsed = <<"Project Generator">>
  /\ chat.awaits = "generateProject"

----------------------------------------------------------------------------
\* The HTTP routes (routes.ts); express.json() hands every handler a body object

\* req.body.<field>
Field(body, f) == IF f \in DOMAIN body THEN body[f] ELSE Undefined

Number(n) == [type |-> "number", n |-> n]

\* storage.generatedProjects.set(id, project)
projectsSet(map, id, project) ==
  {e \in map : e.id # id} \cup {[id |-> id, project |-> project]}

\* the response of a handler, and the calls it made on the way
Response(route, body, status, json, effects) ==
  [pc |-> "responded", route |-> route, body |-> body, status |-> status, json |-> json,
   effects |-> effects]

BadRequest(route, body, error) == Response(route, body, 400, [error |-> error], <<>>)

NotHttp == <<logs, calls, nExec, env, provider, act, chat, clock, llm, ws, client>>

FreeIds == {id \in AgentIds : Absent(agents[id])}

\* Mutant of PostAgents: the agent is created with status "active"
PostAgentsActive(body, o) ==
  /\ http = IdleHttp
  /\ FreeIds # {}
  /\ agents' = [agents EXCEPT ![CHOOSE i \in FreeIds : TRUE] =
                  [NewAgent("null", 0) EXCEPT !.status = "active"]]
  /\ http' = Response("POST /api/agents", body, 200, [agent |-> "new"],
                      <<"storage.createAgent">>)
  /\ UNCHANGED <<projects, NotHttp>>

\* Mutant of PostAgents: the name is not looked at
PostAgentsUnchecked(body, o) ==
  /\ http = IdleHttp
  /\ o = "rejects" \/ FreeIds # {}
  /\ IF o = "rejects"
     THEN /\ http' = Response("POST /api/agents", body, 500,
                              [error |-> "Failed to create agent"], <<"storage.createAgent">>)
          /\ UNCHANGED agents
     ELSE LET id == CHOOSE i \in FreeIds : TRUE
              templateId == IF Falsy(Field(body, "templateId")) THEN "null"
                            ELSE Field(body, "templateId").s
          IN  /\ agents' = [agents EXCEPT ![id] = NewAgent(templateId, 0)]
              /\ http' = Response("POST /api/agents", body, 200, [agent |-> id],
                                  <<"storage.createAgent">>)
  /\ UNCHANGED <<projects, NotHttp>>

\* lines 170-190
PostAgents(body, o) ==
  /\ http = IdleHttp
  /\ Falsy(Field(body, "name")) \/ o = "rejects" \/ FreeIds # {}
  /\ IF Falsy(Field(body, "name"))
     THEN /\ http' = BadRequest("POST /api/agents", body, "Agent name is required")
          /\ UNCHANGED agents
     ELSE IF o = "rejects"
     THEN /\ http' = Response("POST /api/agents", body, 500,
                              [error |-> "Failed to create agent"], <<"storage.createAgent">>)
          /\ UNCHANGED agents
     ELSE LET id == CHOOSE i \in FreeIds : TRUE
              templateId == IF Falsy(Field(body, "templateId")) THEN "null"
                            ELSE Field(body, "templateId").s
          IN  /\ agents' = [agents EXCEPT ![id] = NewAgent(templateId, 0)]
              /\ http' = Response("POST /api/agents", body, 200, [agent |-> id],
                                  <<"storage.createAgent">>)
  /\ UNCHANGED <<projects, NotHttp>>

\* lines 428-442; a message that is no string has no toLowerCase method
PostChatUnified(body, up) ==
  /\ http = IdleHttp
  /\ LET message == Field(body, "message")
     IN  http' =
           IF Falsy(message)
           THEN BadRequest("POST /api/chat/unified", body, "Message is required")
           ELSE IF message.type # "string"
           THEN Response("POST /api/chat/unified", body, 500,
                         [error |-> "Failed to process message"], <<"handleMessage">>)
           ELSE Response("POST /api/chat/unified", body, 200,
                         handleMessage(message.s, provider, env, up, clock),
                         <<"handleMessage", "llmProvider.chat">>)
  /\ UNCHANGED <<agents, projects, NotHttp>>

\* quizData.questions of the parsed content
questionsOf(value) ==
  IF "mockQuizAbout" \in DOMAIN value THEN Array(<<"q1", "q2", "q3">>)
  ELSE IF "questions" \in DOMAIN value THEN value.questions
  ELSE Undefined

\* lines 278-310
PostGenerateQuiz(body, up) ==
  /\ http = IdleHttp
  /\ LET topic == Field(body, "topic")
         route == "POST /api/learning/generate-quiz"
     IN  http' =
           IF Falsy(topic) THEN BadRequest(route, body, "Topic is required")
           ELSE LET response == generateQuizOf(provider, env, topic.s, up)
                    parsed == JSONparse(response.content)
                IN  IF parsed.threw
                    THEN Response(route, body, 500, [error |-> "Failed to parse quiz data"],
                                  <<"llmProvider.generateQuiz">>)
                    ELSE IF Falsy(questionsOf(parsed.value))
                            \/ questionsOf(parsed.value).type # "array"
                    THEN Response(route, body, 500, [error |-> "Invalid quiz format"],
                                  <<"llmProvider.generateQuiz">>)
                    ELSE Response(route, body, 200,
                                  [questions |-> questionsOf(parsed.value),
                                   provider |-> response.provider],
                                  <<"llmProvider.generateQuiz">>)
  /\ UNCHANGED <<agents, projects, NotHttp>>

\* lines 557-582
PostProjectsGenerate(body, up) ==
  /\ http = IdleHttp
  /\ LET description == Field(body, "description")
         route == "POST /api/projects/generate"
     IN  IF Falsy(description)
         THEN /\ http' = BadRequest(route, body, "Project description is required")
              /\ UNCHANGED projects
         ELSE LET project == generateProject(description.s, provider, env, up).project
                  projectId == ProjectId(clock)
              IN  /\ projects' = projectsSet(projects, projectId, project)
                  /\ http' = Response(route, body, 200,
                                      [projectId |-> projectId, project |-> project],
                                      <<"generateProject", "llmProvider.chat",
                                        "generatedProjects.set">>)
  /\ UNCHANGED <<agents, NotHttp>>

\* storage.generatedProjects.has(id) / .get(id)
projectsHas(map, id) == \E e \in map : e.id = id
projectsGet(map, id) == (CHOOSE e \in map : e.id = id).project

\* Mutant of GetDownload: the entry is removed once it was downloaded
GetDownloadOnce(id, o) ==
  /\ http = IdleHttp
  /\ http' = IF ~projectsHas(projects, id)
             THEN Response("GET /api/projects/:id/download", [id |-> id], 404,
                           [error |-> "Project not found"], <<>>)
             ELSE Response("GET /api/projects/:id/download", [id |-> id], 200,
                           [zip |-> projectsGet(projects, id)], <<"archiver">>)
  /\ projects' = {e \in projects : e.id # id}
  /\ UNCHANGED <<agents, NotHttp>>

\* lines 585-619: the stored project is streamed as a zip archive; an error
\* of the archiver is answered with status 500
GetDownload(id, o) ==
  /\ http = IdleHttp
  /\ http' = IF ~projectsHas(projects, id)
             THEN Response("GET /api/projects/:id/download", [id |-> id], 404,
                           [error |-> "Project not found"], <<>>)
             ELSE IF o = "archive error"
             THEN Response("GET /api/projects/:id/download", [id |-> id], 500,
                           [error |-> "Failed to create zip file"], <<"archiver">>)
             ELSE Response("GET /api/projects/:id/download", [id |-> id], 200,
                           [zip |-> projectsGet(projects, id)], <<"archiver">>)
  /\ UNCHANGED <<agents, projects, NotHttp>>

\* ids a client asks for: those Date.now() can have produced, and one that
\* was never generated
DownloadIds == {ProjectId(now) : now \in 0..MaxClock} \cup {[prefix |-> "proj-", now |-> -1]}

SupportedLanguages == {"javascript", "typescript", "python", "bash", "c", "cpp"}

\* lines 445-554: the program is written to a temporary directory and run
PostCodeExecute(body, o) ==
  /\ http = IdleHttp
  /\ LET code == Field(body, "code")
         language == Field(body, "language")
         route == "POST /api/code/execute"
     IN  http' =
           IF Falsy(code) \/ Falsy(language)
           THEN BadRequest(route, body, "Code and language are required")
           ELSE IF language.s \notin SupportedLanguages
           THEN Response(route, body, 200, [success |-> FALSE, error |-> "Unsupported language"],
                         <<"fs.mkdtemp">>)
           ELSE Response(route, body, 200, [success |-> o = "ok", error |-> o],
                         <<"fs.mkdtemp", "fs.writeFile", "exec">>)
  /\ UNCHANGED <<agents, projects, NotHttp>>

\* the response has been written
HttpResponds ==
  /\ http # IdleHttp
  /\ http' = IdleHttp
  /\ UNCHANGED <<agents, projects, NotHttp>>

\* Date.now() advances between requests
HttpTick ==
  /\ clock < MaxClock
  /\ clock' = clock + 1
  /\ UNCHANGED <<agents, logs, calls, nExec, env, provider, act, chat, llm, Edge>>

\* request bodies: each field absent, empty, or given
Bodies(fields, values) ==
  UNION {[fs -> values] : fs \in SUBSET fields}

HelloTeach == <<"t", "e", "a", "c", "h", " ", "m", "e">>
CreateProject == <<"C", "r", "e", "a", "t", "e", " ", "P", "r", "o", "j", "e", "c", "t">>
NameValues == {Str(""), Str("bot")}
MessageValues == {Chars(<<>>), Chars(HelloTeach), Chars(CreateProject), Number(7)}
TopicValues == {Str(""), Str("algebra")}
DescriptionValues == {Chars(<<>>), Chars(TodoApp)}
CodeValues == {Str(""), Str("print(1)")}
LanguageValues == {Str(""), Str("python"), Str("cobol")}

QuizReplies ==
  {UpstreamFails,
   UpstreamAnswers(Text("none", FALSE, [said |-> "prose"])),
   UpstreamAnswers(Text("json", TRUE, [questions |-> Array(<<"q1">>)])),
   UpstreamAnswers(Text("none", TRUE, [questions |-> Undefined]))}

HttpEnvs == {{}, {"GEMINI_API_KEY"}}

InitHttp ==
  /\ agents = [id \in AgentIds |-> NoAgent]
  /\ logs = <<>>
  /\ calls = [c \in Slots |-> IdleCall]
  /\ nExec = 0
  /\ env \in HttpEnvs
  /\ provider = detectProvider(env)
  /\ act = IdleAct
  /\ chat = IdleChat
  /\ clock = 0
  /\ llm = IdleLlm
  /\ InitEdge

NextHttp ==
  \/ \E body \in Bodies({"name"}, NameValues), o \in {"ok", "rejects"} : PostAgents(body, o)
  \/ \E body \in Bodies({"message"}, MessageValues), up \in Replies : PostChatUnified(body, up)
  \/ \E body \in Bodies({"topic"}, TopicValues), up \in QuizReplies : PostGenerateQuiz(body, up)
  \/ \E body \in Bodies({"description"}, DescriptionValues), up \in Replies :
       PostProjectsGenerate(body, up)
  \/ \E code \in Bodies({"code"}, CodeValues), language \in Bodies({"language"}, LanguageValues),
        o \in {"ok", "exit 1", "timeout"} :
       PostCodeExecute(code @@ language, o)
  \/ \E id \in DownloadIds, o \in {"ok", "archive error"} : GetDownload(id, o)
  \/ HttpResponds
  \/ HttpTick

SpecHttp == InitHttp /\ [][NextHttp]_vars

----------------------------------------------------------------------------
\* The agent routes next to the executor: every operation of the server that
\* can run while agents are executed

\* storage.deleteAgent(id)
deleteAgent(store, id) == [store EXCEPT ![id] = NoAgent]

\* lines 159-167 (and 193-200): the agents are listed
GetAgents ==
  /\ http = IdleHttp
  /\ http' = Response("GET /api/agents", <<>>, 200,
                      [agents |-> {id \in AgentIds : ~Absent(agents[id])}],
                      <<"storage.getAllAgents">>)
  /\ UNCHANGED <<agents, projects, NotHttp>>

\* lines 220-229
DeleteAgent(id, o) ==
  /\ http = IdleHttp
  /\ IF o = "rejects"
     THEN /\ http' = Response("DELETE /api/agents/:id", [id |-> id], 500,
                              [error |-> "Failed to delete agent"], <<"storage.deleteAgent">>)
          /\ UNCHANGED agents
     ELSE /\ http' = Response("DELETE /api/agents/:id", [id |-> id], 200,
                              [success |-> TRUE], <<"storage.deleteAgent">>)
          /\ agents' = deleteAgent(agents, id)
  /\ UNCHANGED <<projects, NotHttp>>

\* lines 313-376: the schedule is generated, parsed and validated against the
\* schema (schema.ts is not part of the sources: it accepts or rejects)
PostGenerateSchedule(body, up, o) ==
  /\ http = IdleHttp
  /\ LET topic == Field(body, "topic")
         duration == Field(body, "duration")
         route == "POST /api/learning/generate-schedule"
     IN  http' =
           IF Falsy(topic) \/ Falsy(duration)
           THEN BadRequest(route, body, "Topic and duration are required")
           ELSE LET response == generateScheduleOf(provider, env, topic.s, duration.s, up)
                IN  IF JSONparse(response.content).threw
                    THEN Response(route, body, 500, [error |-> "Failed to parse schedule data"],
                                  <<"llmProvider.generateSchedule">>)
                    ELSE IF o = "invalid"
                    THEN Response(route, body, 500,
                                  [error |-> "Invalid schedule structure from AI"],
                                  <<"llmProvider.generateSchedule">>)
                    ELSE Response(route, body, 200, [provider |-> response.provider],
                                  <<"llmProvider.generateSchedule">>)
  /\ UNCHANGED <<agents, projects, NotHttp>>

\* one agent exists and was not executed yet; executeAgent calls run one
\* after the other, each to its return, between the requests of the routes
InitFrame ==
  /\ agents = [id \in AgentIds |-> IF id = "a1" THEN NewAgent("auto-email", 0) ELSE NoAgent]
  /\ logs = <<>>
  /\ calls = [c \in Slots |-> IdleCall]
  /\ nExec = 0
  /\ env = {}
  /\ provider = detectProvider(env)
  /\ act = IdleAct
  /\ chat = IdleChat
  /\ clock = 0
  /\ llm = IdleLlm
  /\ InitEdge

NextFrame ==
  \/ /\ nExec < MaxExecutions
     /\ \E id \in AgentIds : RunToReturn(id, Params(Fields), "ok")
  \/ PostAgents([name |-> Str("bot"), templateId |-> Str("data-backup")], "ok")
  \/ GetAgents
  \/ \E id \in AgentIds, o \in {"ok", "rejects"} : DeleteAgent(id, o)
  \/ PostChatUnified([message |-> Chars(HelloTeach)], UpstreamFails)
  \/ PostGenerateQuiz([topic |-> Str("algebra")], UpstreamFails)
  \/ \E o \in {"valid", "invalid"} :
       PostGenerateSchedule([topic |-> Str("algebra"), duration |-> Str("1 week")],
                            UpstreamFails, o)
  \/ PostProjectsGenerate([description |-> Chars(TodoApp)], UpstreamFails)
  \/ PostCodeExecute([code |-> Str("print(1)"), language |-> Str("python")], "ok")
  \/ HttpResponds

SpecFrame == InitFrame /\ [][NextFrame]_vars

----------------------------------------------------------------------------
\* Claims about the HTTP routes

\* the columns of an agent the executor maintains
Counters(agent) == <<agent.status, agent.tasksCompleted, agent.successRate>>

\* an executeAgent call on agent id is made in this step
ExecutorWrites(id) ==
  /\ nExec' = nExec + 1
  /\ Len(logs') = Len(logs) + 1
  /\ logs'[Len(logs')].agentId = id

\* C26: an agent's status, tasksCompleted and successRate change only
\* through executeAgent on that agent: creating, listing or deleting other
\* agents, chat, quiz, schedule, code and project operations, and
\* executeAgent on a different agent, leave them unchanged; a newly created
\* agent starts with status "idle".
C26_OnlyExecutor ==
  [][\A id \in AgentIds :
       /\ (~Absent(agents[id]) /\ ~Absent(agents'[id])
            /\ Counters(agents'[id]) # Counters(agents[id]))
          => ExecutorWrites(id)
       /\ (Absent(agents[id]) /\ ~Absent(agents'[id])) => agents'[id].status = "idle"]_vars

\* agent a1 was executed with success, a second agent created meanwhile was
\* executed and failed, and a project was generated: each agent has its own
\* counters
C26_Witness ==
  /\ ~Absent(agents["a1"]) /\ ~Absent(agents["a2"])
  /\ Counters(agents["a1"]) = <<"idle", 1, 100>>
  /\ Counters(agents["a2"]) = <<"error", 1, 0>>
  /\ logs[Len(logs)].agentId = "a2"
  /\ http # IdleHttp /\ http.route = "POST /api/projects/generate"

\* the required body fields of the five routes
RequiredFields ==
  [r \in {"POST /api/agents", "POST /api/chat/unified", "POST /api/learning/generate-quiz",
          "POST /api/projects/generate", "POST /api/code/execute"} |->
     CASE r = "POST /api/agents" -> {"name"}
       [] r = "POST /api/chat/unified" -> {"message"}
       [] r = "POST /api/learning/generate-quiz" -> {"topic"}
       [] r = "POST /api/projects/generate" -> {"description"}
       [] r = "POST /api/code/execute" -> {"code", "language"}]

Lacks(h) ==
  /\ h.route \in DOMAIN RequiredFields
  /\ \E f \in RequiredFields[h.route] : f \notin DOMAIN h.body

\* C17: a request that lacks a required body field is answered with status
\* 400 and an error, and has no side effect: no agent is created, no project
\* is stored, and no router, provider or process call is made.
C17_BadRequest ==
  /\ [](http # IdleHttp /\ Lacks(http)
          => /\ http.status = 400
             /\ "error" \in DOMAIN http.json
             /\ http.effects = <<>>)
  /\ [][http = IdleHttp /\ http' # IdleHttp /\ Lacks(http')
          => agents' = agents /\ projects' = projects]_vars

\* a project is stored and an agent exists, then a code request without its
\* language is refused and both are as before
C17_Witness ==
  /\ http # IdleHttp
  /\ http.route = "POST /api/code/execute"
  /\ DOMAIN http.body = {"code"}
  /\ http.status = 400
  /\ projects # NoProjects
  /\ \E id \in AgentIds : ~Absent(agents[id])

\* the response of the request just handled carries a project id
ReturnsProjectId ==
  /\ http # IdleHttp
  /\ http.route \in {"POST /api/projects/generate", "POST /api/chat/unified"}
  /\ http.status = 200
  /\ "projectId" \in DOMAIN http.json

\* the unified_response frames pushed on the connection that carry a project id
FramesWithProjectId ==
  IF ws = IdleWs THEN {}
  ELSE {i \in 1..Len(ws.sent) : ws.sent[i].frame.type = "unified_response"
                                /\ ws.sent[i].frame.projectId # Undefined}

\* C23: every projectId that the server returns to a client, from POST
\* /api/projects/generate, from a WebSocket "unified_chat" frame or from POST
\* /api/chat/unified, identifies a project that was stored in the project
\* map, so that a GET /api/projects/:id/download for it made afterwards does
\* not answer 404.
C23_ReturnedIdsStored ==
  /\ [](ReturnsProjectId => projectsHas(projects, http.json.projectId))
  /\ [](\A i \in FramesWithProjectId : projectsHas(projects, ws.sent[i].frame.projectId))
  /\ [][(http = IdleHttp /\ http' # IdleHttp
           /\ http'.route = "GET /api/projects/:id/download"
           /\ projectsHas(projects, http'.body.id))
         => http'.status # 404]_vars

\* C24: two projects generated by different requests never share a
\* projectId: a project stored in the project map is never overwritten by
\* the project of another request, also when both requests complete within
\* the same millisecond or arrive over different paths.
C24_NeverOverwritten ==
  [][\A e \in projects : \A f \in projects' : f.id = e.id => f.project = e.project]_vars

\* a download request is answered in this step
Downloads ==
  /\ http = IdleHttp
  /\ http' # IdleHttp
  /\ http'.route = "GET /api/projects/:id/download"

\* C27: a generated project stored under an id is retrievable for download
\* by that id, and no operation ever removes an entry from the project map:
\* a download does not delete the project and nothing evicts it, so it stays
\* retrievable for the process lifetime; an id that was never stored answers
\* 404.
C27_Retrievable ==
  /\ [][\A e \in projects : projectsHas(projects', e.id)]_vars
  /\ [][Downloads =>
          /\ projects' = projects
          /\ IF projectsHas(projects, http'.body.id)
             THEN /\ http'.status # 404
                  /\ http'.status = 200 =>
                       http'.json.zip = projectsGet(projects, http'.body.id)
             ELSE http'.status = 404]_vars

\* two projects are stored and one of them has just been downloaded: both
\* are still in the map
C27_Witness ==
  /\ http # IdleHttp
  /\ http.route = "GET /api/projects/:id/download"
  /\ http.status = 200
  /\ projectsHas(projects, http.body.id)
  /\ Cardinality(projects) = 2

----------------------------------------------------------------------------
\* The WebSocket endpoint (routes.ts, wss.on("connection"))

\* bound of the endpoint model: frames received on the connection
MaxFrames == 2

\* the ids AgentManager knows: its three default agents (AgentManager.ts:18-41)
defaultAgents == {"learning-assistant", "booking-navigator", "code-helper"}

\* AgentManager.chatWithAgent, lines 75-82
chatWithAgent(agentId, message) ==
  IF agentId \in defaultAgents
  THEN Value([kind |-> "Agent response to", agentId |-> agentId, message |-> message])
  ELSE Threw("Agent not found")

UnifiedChatFrame(message) == [type |-> "unified_chat", message |-> message]
AgentChatFrame(agentId, message) ==
  [type |-> "agent_chat", agentId |-> agentId, message |-> message]
\* a frame whose text is no JSON
NotJson == [type |-> "not JSON"]

Sends(frame) == [sends |-> TRUE, frame |-> frame, logged |-> "none"]
Logs(error) == [sends |-> FALSE, logged |-> error]
Ignores == [sends |-> FALSE, logged |-> "none"]

\* lines 123-152: what the message handler does with one frame, given the
\* result of its awaited call; every exception ends in console.error
onMessage(data, p, e, up, now) ==
  IF data = NotJson THEN Logs("SyntaxError")
  ELSE IF data.type = "agent_chat"
  THEN LET response == chatWithAgent(data.agentId, data.message)
       IN  IF response.threw THEN Logs(response.error)
           ELSE Sends([type |-> "agent_response", content |-> response.value])
  ELSE IF data.type = "unified_chat"
  THEN IF data.message.type # "string" THEN Logs("TypeError")
       ELSE CHOOSE sent \in
              {Sends([type |-> "unified_response", content |-> result.response,
                      agentsUsed |-> result.agentsUsed,
                      projectId |-> IF "projectId" \in DOMAIN result
                                    THEN result.projectId ELSE Undefined]) :
                 result \in {handleMessage(data.message.s, p, e, up, now)}} : TRUE
  ELSE Ignores

\* lines 133-138: the project of a unified_chat result is stored
storedBy(data, p, e, up, now, map) ==
  IF data # NotJson /\ data.type = "unified_chat" /\ data.message.type = "string"
  THEN CHOOSE stored \in
         {IF "projectId" \in DOMAIN result
          THEN projectsSet(map, result.projectId, result.projectData)
          ELSE map : result \in {handleMessage(data.message.s, p, e, up, now)}} : TRUE
  ELSE map

WsFrames ==
  {UnifiedChatFrame(Chars(HelloTeach)), UnifiedChatFrame(Chars(CreateProject)),
   UnifiedChatFrame(Undefined),
   AgentChatFrame("code-helper", "hi"), AgentChatFrame("a1", "hi"),
   [type |-> "ping"], NotJson}

WsReplies == {UpstreamFails, UpstreamAnswers(Text("json", TRUE, GoodProject))}

NotWs == <<agents, logs, calls, nExec, env, provider, act, chat, clock, llm, http, client>>

\* lines 128 and 131: the handler of this frame waits for a request to the
\* provider; every other handler runs to its end without leaving the event
\* loop's turn (its awaits are resolved promises)
awaitsUpstream(data) ==
  /\ data # NotJson
  /\ data.type = "unified_chat"
  /\ data.message.type = "string"
  /\ chatRoute(provider, env) # "mock"

\* the next "message" or "close" event is dispatched once the handlers
\* that do not wait for the network have finished
TurnEnded == \A m \in ws.handling : awaitsUpstream(ws.received[m])

\* Mutant of WsHandled: the handlers finish in the order their frames came
WsHandledInOrder(n, up) ==
  /\ ws.pc = "open"
  /\ n \in ws.handling
  /\ \A m \in ws.handling : n <= m
  /\ \E did \in {onMessage(ws.received[n], provider, env, up, clock)} :
       ws' = [ws EXCEPT !.handling = ws.handling \ {n},
                        !.sent = IF did.sends
                                 THEN Append(ws.sent, [re |-> n, frame |-> did.frame])
                                 ELSE ws.sent,
                        !.logged = IF did.logged # "none" THEN ws.logged \cup {n}
                                   ELSE ws.logged]
  /\ projects' = storedBy(ws.received[n], provider, env, up, clock, projects)
  /\ UNCHANGED NotWs

\* a client connects to /ws
WsConnect ==
  /\ ws = IdleWs
  /\ ws' = [pc |-> "open", received |-> <<>>, handling |-> {}, sent |-> <<>>, logged |-> {}]
  /\ UNCHANGED <<projects, NotWs>>

\* a frame arrives and its handler starts; handlers of earlier frames may
\* still be waiting
WsMessage(frame) ==
  /\ ws.pc = "open"
  /\ TurnEnded
  /\ Len(ws.received) < MaxFrames
  /\ ws' = [ws EXCEPT !.received = Append(ws.received, frame),
                      !.handling = ws.handling \cup {Len(ws.received) + 1}]
  /\ UNCHANGED <<projects, NotWs>>

\* the handler of frame n runs to its end: it sends its response, or logs
WsHandled(n, up) ==
  /\ ws.pc = "open"
  /\ n \in ws.handling
  /\ \E did \in {onMessage(ws.received[n], provider, env, up, clock)} :
       ws' = [ws EXCEPT !.handling = ws.handling \ {n},
                        !.sent = IF did.sends
                                 THEN Append(ws.sent, [re |-> n, frame |-> did.frame])
                                 ELSE ws.sent,
                        !.logged = IF did.logged # "none" THEN ws.logged \cup {n}
                                   ELSE ws.logged]
  /\ projects' = storedBy(ws.received[n], provider, env, up, clock, projects)
  /\ UNCHANGED NotWs

\* the connection is closed; nothing more is received or sent on it
WsClose ==
  /\ ws.pc = "open"
  /\ TurnEnded
  /\ ws' = [ws EXCEPT !.pc = "closed"]
  /\ UNCHANGED <<projects, NotWs>>

WsEnvs == {{}, {"OPENAI_API_KEY"}}

InitWs ==
  /\ agents = [id \in AgentIds |-> NoAgent]
  /\ logs = <<>>
  /\ calls = [c \in Slots |-> IdleCall]
  /\ nExec = 0
  /\ env \in WsEnvs
  /\ provider = detectProvider(env)
  /\ act = IdleAct
  /\ chat = IdleChat
  /\ clock = 0
  /\ llm = IdleLlm
  /\ InitEdge

NextWs ==
  \/ WsConnect
  \/ \E frame \in WsFrames : WsMessage(frame)
  \/ \E n \in 1..MaxFrames, up \in WsReplies : WsHandled(n, up)
  \/ WsClose

\* a handler that has started runs to its end: its awaited calls settle
SpecWsSafety == InitWs /\ [][NextWs]_vars

SpecWs ==
  /\ InitWs
  /\ [][NextWs]_vars
  /\ \A n \in 1..MaxFrames : WF_vars(\E up \in WsReplies : WsHandled(n, up))

----------------------------------------------------------------------------
\* Claims about the WebSocket endpoint

\* frame n was received on the open connection and asks for a chat
ChatFrame(n) ==
  /\ ws.pc = "open"
  /\ n <= Len(ws.received)
  /\ ws.received[n].type \in {"unified_chat", "agent_chat"}

ResponseType(type) == IF type = "unified_chat" THEN "unified_response" ELSE "agent_response"

ResponsesTo(n) ==
  IF ws = IdleWs \/ n > Len(ws.received) THEN {}
  ELSE {i \in 1..Len(ws.sent) :
          ws.sent[i].re = n /\ ws.sent[i].frame.type = ResponseType(ws.received[n].type)}

\* C18: every "unified_chat" frame received on an open connection is
\* eventually answered by exactly one "unified_response" frame on that
\* connection, and every "agent_chat" frame by exactly one "agent_response".
C18_EveryFrameAnswered ==
  \A n \in 1..MaxFrames :
    /\ ChatFrame(n) ~> (ws.pc = "closed" \/ Cardinality(ResponsesTo(n)) = 1)
    /\ [](ChatFrame(n) => Cardinality(ResponsesTo(n)) <= 1)

\* the positions in ws.sent of the responses to "unified_chat" frames
UnifiedResponses ==
  IF ws = IdleWs THEN {}
  ELSE {i \in 1..Len(ws.sent) : ws.sent[i].frame.type = "unified_response"}

\* C30: on one WebSocket connection the response frames are pushed in the
\* order in which the request frames that caused them were received: the
\* response to an earlier "unified_chat" frame is never sent after the
\* response to a later one.
C30_ResponsesInOrder ==
  \A i, j \in UnifiedResponses : i < j => ws.sent[i].re < ws.sent[j].re

----------------------------------------------------------------------------
\* The UnifiedChat client (client/src/components/UnifiedChat.tsx)

\* bound of the client model: messages the user sends
MaxSends == 2

\* String.prototype.trim on a sequence of characters
trim(s) ==
  LET kept == {i \in 1..Len(s) : s[i] # " "}
  IN  IF kept = {} THEN <<>>
      ELSE SubSeq(s, CHOOSE i \in kept : \A j \in kept : i <= j,
                     CHOOSE i \in kept : \A j \in kept : j <= i)

Welcome == [role |-> "assistant", content |-> [kind |-> "Hello! I'm your unified AI assistant"]]
UserMessage(input) == [role |-> "user", content |-> Chars(input)]
AssistantMessage(content) == [role |-> "assistant", content |-> content]
Apology == AssistantMessage([kind |-> "Sorry, I encountered an error. Please try again."])

NoFetch == [none |-> TRUE]

\* lines 21-34 and 36-41: the component's state after its first render and
\* the effect that opens the WebSocket
Mounted ==
  [pc |-> "mounted", readyState |-> "CONNECTING", isLoading |-> FALSE,
   messages |-> <<Welcome>>, wsSent |-> <<>>, unanswered |-> {},
   posted |-> <<>>, fetch |-> NoFetch, dropped |-> FALSE]

NotClient == <<agents, logs, calls, nExec, env, provider, act, chat, clock, llm, http, ws>>

ClientMount ==
  /\ client = IdleClient
  /\ client' = Mounted
  /\ UNCHANGED <<projects, NotClient>>

\* lines 43-45
ClientOnOpen ==
  /\ client # IdleClient
  /\ client.readyState = "CONNECTING"
  /\ client' = [client EXCEPT !.readyState = "OPEN"]
  /\ UNCHANGED <<projects, NotClient>>

\* lines 90-117: handleSend up to its send or its awaited fetch
ClientHandleSend(input) ==
  /\ client # IdleClient
  /\ Len(client.wsSent) + Len(client.posted) < MaxSends
  /\ ~(trim(input) = <<>> \/ client.isLoading)
  /\ client' =
       IF client.readyState = "OPEN"
       THEN [client EXCEPT !.messages = Append(client.messages, UserMessage(input)),
                           !.isLoading = TRUE,
                           !.wsSent = Append(client.wsSent, UnifiedChatFrame(Chars(input))),
                           !.unanswered = client.unanswered \cup {Len(client.wsSent) + 1}]
       ELSE [client EXCEPT !.messages = Append(client.messages, UserMessage(input)),
                           !.isLoading = TRUE,
                           !.posted = Append(client.posted, [message |-> Chars(input)]),
                           !.fetch = [none |-> FALSE, body |-> [message |-> Chars(input)]]]
  /\ UNCHANGED <<projects, NotClient>>

\* the server's handler answers frame n on the open connection (routes.ts
\* 123-151) and the client's onmessage takes the frame (lines 47-68)
ClientOnMessage(n, up) ==
  /\ client # IdleClient
  /\ client.readyState = "OPEN"
  /\ n \in client.unanswered
  /\ \E did \in {onMessage(client.wsSent[n], provider, env, up, clock)} :
       client' =
         IF did.sends /\ did.frame.type = "unified_response"
         THEN [client EXCEPT !.unanswered = client.unanswered \ {n},
                             !.messages = Append(client.messages,
                                                 AssistantMessage(did.frame.content)),
                             !.isLoading = FALSE]
         ELSE [client EXCEPT !.unanswered = client.unanswered \ {n}]
  /\ projects' = storedBy(client.wsSent[n], provider, env, up, clock, projects)
  /\ UNCHANGED NotClient

\* the connection is dropped: a failure fires onerror (lines 70-73) and then
\* onclose, a close by the other side fires onclose alone (lines 75-77);
\* frames not answered by then are never answered
ClientOnDrop(withError) ==
  /\ client # IdleClient
  /\ client.readyState \in {"CONNECTING", "OPEN"}
  /\ client' = [client EXCEPT !.readyState = "CLOSED", !.unanswered = {},
                              !.dropped = TRUE,
                              !.isLoading = IF withError THEN FALSE ELSE client.isLoading]
  /\ UNCHANGED <<projects, NotClient>>

\* lines 113-132: POST /api/chat/unified (routes.ts 428-442) responds and
\* handleSend resumes; a response that is not ok goes to the catch block
ClientFetchResponds(up) ==
  /\ client # IdleClient
  /\ client.fetch # NoFetch
  /\ \E message \in {Field(client.fetch.body, "message")} :
       client' =
         IF Falsy(message) \/ message.type # "string"
         THEN [client EXCEPT !.fetch = NoFetch, !.isLoading = FALSE,
                             !.messages = Append(client.messages, Apology)]
         ELSE [client EXCEPT !.fetch = NoFetch, !.isLoading = FALSE,
                             !.messages =
                               Append(client.messages,
                                      AssistantMessage(handleMessage(message.s, provider, env,
                                                                     up, clock).response))]
  /\ UNCHANGED <<projects, NotClient>>

\* lines 134-146: the fetch rejects (the server cannot be reached)
ClientFetchRejects ==
  /\ client # IdleClient
  /\ client.fetch # NoFetch
  /\ client' = [client EXCEPT !.fetch = NoFetch, !.isLoading = FALSE,
                              !.messages = Append(client.messages, Apology)]
  /\ UNCHANGED <<projects, NotClient>>

\* what the user types
ClientInputs == {HelloTeach, CreateProject, <<" ">>}

InitClient ==
  /\ agents = [id \in AgentIds |-> NoAgent]
  /\ logs = <<>>
  /\ calls = [c \in Slots |-> IdleCall]
  /\ nExec = 0
  /\ env \in WsEnvs
  /\ provider = detectProvider(env)
  /\ act = IdleAct
  /\ chat = IdleChat
  /\ clock = 0
  /\ llm = IdleLlm
  /\ InitEdge

NextClient ==
  \/ ClientMount
  \/ ClientOnOpen
  \/ \E input \in ClientInputs : ClientHandleSend(input)
  \/ \E n \in 1..MaxSends, up \in WsReplies : ClientOnMessage(n, up)
  \/ \E withError \in BOOLEAN : ClientOnDrop(withError)
  \/ \E up \in WsReplies : ClientFetchResponds(up)
  \/ ClientFetchRejects

\* the server answers the frames of an open connection, and an awaited fetch
\* settles
SpecClient ==
  /\ InitClient
  /\ [][NextClient]_vars
  /\ \A n \in 1..MaxSends : WF_vars(\E up \in WsReplies : ClientOnMessage(n, up))
  /\ WF_vars((\E up \in WsReplies : ClientFetchResponds(up)) \/ ClientFetchRejects)

----------------------------------------------------------------------------
\* Claims about the UnifiedChat client

Dropped == client # IdleClient /\ client.dropped
Loading == client # IdleClient /\ client.isLoading
Fetching == client # IdleClient /\ client.fetch # NoFetch

\* the message shown last
LastRole ==
  IF client = IdleClient THEN "none" ELSE client.messages[Len(client.messages)].role

\* handleSend has taken a message in this step
Sent == client # IdleClient /\ Len(client'.messages) = Len(client.messages) + 1
          /\ client'.messages[Len(client'.messages)].role = "user"

\* C20: in the UnifiedChat client, when the WebSocket connection is dropped
\* at any moment, including while a message sent over it is still unanswered,
\* the client eventually leaves the loading state, and the next message the
\* user sends is delivered through the one-shot POST /api/chat/unified
\* fallback and answered.
C20_FallsBack ==
  /\ Dropped ~> ~Loading
  /\ [][Dropped /\ Sent => Len(client'.posted) = Len(client.posted) + 1]_vars
  /\ Fetching ~> (~Fetching /\ LastRole = "assistant")

====
